---- MODULE Spec2Model ----
(***************************************************************************)
(* A model of mdflib-rs: the wrapper types of the mdflib crate, the        *)
(* logging bridge (mdflib/src/log.rs) and the mf4-candump capture tool     *)
(* (mf4-candump/src/main.rs).                                              *)
(*                                                                         *)
(* The components, each with its own specification:                        *)
(*   LogSpec     callers of set_log_callback_1/2 and engine threads that   *)
(*               emit log records, interleaved at every lock acquisition   *)
(*               and every engine call;                                    *)
(*   DumpSpec    one run of mf4-candump: main, the capture loop, the       *)
(*               duration timeout and the signal task (FairDumpSpec adds   *)
(*               the fairness of the runtime; RouteSpec keeps the history  *)
(*               of the frames read and saved);                            *)
(*   MetaSpec    the -m entries applied by setup_mdf_writer;               *)
(*   FilterSpec  parse_can_filter applied to bounded input strings;        *)
(*   ReaderSpec  MdfReader: its operations, the handles taken from it and  *)
(*               its drop;                                                 *)
(*   TextSpec    the text setters and getters of the entity wrappers;      *)
(*   ColSpec     the "get all" getters with their fixed buffers;           *)
(*   OwnSpec     owning constructors, handles and the Drop impls;          *)
(*   WriterSpec  MdfWriter's measurement calls and its entities;           *)
(*   SampleSpec  the samples saved through MdfWriter;                      *)
(*   ObsSpec     the sample accessors of the observers.                    *)
(***************************************************************************)
EXTENDS Integers, Sequences, FiniteSets, TLC

(***************************************************************************)
(* Bounds of the model.                                                    *)
(***************************************************************************)
\* number of application threads calling set_log_callback_1/2
NumCallers == 2
\* number of engine threads emitting log records
NumEngineThreads == 1
\* native objects the engine allocates in one run
MaxNatives == 3
\* wrapper values the program holds at once
MaxWrappers == 2
\* longest filter string enumerated exhaustively for parse_can_filter
MaxFilterLen == 4
\* largest -n COUNT given to mf4-candump
MaxSamples == 2
\* largest number of -f arguments given to mf4-candump
MaxFilters == 2
\* save_sample / save_can_message calls made on one writer
MaxSaved == 2
\* the largest timestamp (start times and sample times range over 0..MaxTime)
MaxTime == 2
\* -m entries of one run, and characters of one entry
MaxMeta == 2
MaxMetaLen == 3

VARIABLES
  \* ---- logging bridge (mdflib/src/log.rs) ----
  bridge,      \* which bridge the run exercises: 1 (set_log_callback_1) or 2 (set_log_callback_2)
  slot,        \* LOG_CALLBACK_N: the installed callback, or "None"
  lockHeld,    \* the Mutex around the slot is held
  engineFn,    \* the bridge function is registered with the engine (MdfSetLogFunctionN)
  pc,          \* position of each caller inside set_log_callback_N
  arg,         \* the caller's argument: a callback, or "None" to clear
  result,      \* what the caller's last call returned: "none", "Ok", "Err"
  overtaken,   \* history: an install wrote the slot after this caller's clear took it
  nOk,         \* history: installs that returned Ok since the last clear took the slot
  epc,         \* position of each engine thread
  delivering,  \* the callback an engine thread is running, or "None"
  \* ---- parse_can_filter (mf4-candump/src/main.rs) ----
  filter_str,  \* the argument, a sequence of characters
  filter_res,  \* what parse_can_filter returned for it
  \* ---- mf4-candump (mf4-candump/src/main.rs) ----
  filters,        \* args.filters: the -f strings
  duration,       \* args.duration: seconds, or NoneOpt
  max_samples,    \* args.samples: -n COUNT, or NoneOpt
  mpc,            \* position of the main task
  can_filters,    \* the filters parsed so far
  running,        \* the shared keep-running flag (Arc<AtomicBool>)
  sigState,       \* the signal task: "off", "listening", "done"
  sigDelivered,   \* SIGINT or SIGTERM has been delivered to the process
  sigInCapture,   \* history: it was delivered while the capture loop was running
  timerArmed,     \* timeout_future has been polled: its sleep is registered
  elapsed,        \* the sleep of timeout_future has expired
  message_count,  \* the loop's counter
  savedCount,     \* history: calls of save_can_message
  calls,          \* history: the measurement calls made on the writer, in order
  writerCreated,  \* MdfWriter::new has been called
  socketOpened,   \* the CAN socket has been opened
  readError,      \* history: read_frame returned an error other than WouldBlock
  errorLogged,    \* history: log::error! has been called
  warned,         \* history: log::warn! has been called for a failed finalize
  endCause,       \* history: why the capture ended
  exit_code,      \* Running, or the exit status of the process
  finalizeFailed, \* history: finalize_measurement returned false
  tracing,        \* the run keeps the histories framesRead and savedTo and the
                  \* saves in calls (fixed for a run; read by no step of the code)
  failedAt,       \* history: the step of the main task that returned an error
  framesRead,     \* history: the class of each frame read_frame returned, in order
  savedTo,        \* history: per save_can_message call, the channel group and the frame
  metadata,       \* args.metadata: Some(the -m strings), or None
  metaProps,      \* the calls of MetaDataSetPropertyAsString: <<key, value>>, in order
  metaWarned,     \* history: the entries log::warn! reported as invalid
  metaRet,        \* how the metadata step of setup_mdf_writer ended
  \* ---- MdfReader (mdflib/src/reader.rs) ----
  rd,          \* the MdfReader value: "absent", "live", "dropped"
  rdPath,      \* the path given to MdfReader::new
  rdNative,    \* the engine's reader object: "none", "alive", "released"
  rdReleases,  \* history: calls of MdfReaderUnInit
  rdOp,        \* the last operation called on MdfReader
  rdEngine,    \* what the engine answered to it: "none", "ok", "fail"
  rdRet,       \* what the operation returned
  rdHandles,   \* the reference handles the program holds (file, header, data group)
  rdDangling,  \* history: the engine was called through a handle of a released reader
  \* ---- text setters and getters of the entity wrappers (mdflib/src/*.rs) ----
  txKind,      \* the entity type the run exercises
  engText,     \* the text the engine holds for the entity's attribute (bytes)
  txOp,        \* the last wrapper call: "none", "set", "get"
  txArg,       \* the setter's argument
  txRet,       \* how the call ended: "none", "unit", "Ok", "Err", "panic", "text"
  txGot,       \* the text the getter returned
  txPrev,      \* history: engText before the call
  txEngineSet, \* history: the call reached the engine's setter
  \* ---- "get all" collection getters (file.rs, header.rs, metadata.rs) ----
  colKind,     \* which getter the run exercises
  colEngine,   \* the entries the engine holds, in its order
  colCount,    \* the count the engine returned to the getter, or -1 before the call
  colRet,      \* the collection the getter returned
  \* ---- ownership of native objects (Drop impls of the wrappers) ----
  nat,         \* per native object: who allocated it, UnInit calls, and history:
               \* its owning wrapper was dropped, a from_raw ETag on it was dropped
  wr,          \* the wrapper values the program holds: type, pointer, owned flag
  ownKind,     \* the owning type the run exercises, next to MdfReader as a parent
  \* ---- MdfWriter and its write-side entities (writer.rs, header.rs) ----
  wCalls,      \* the measurement calls made on the writer so far
  wAuthor,     \* the engine's header: the author text
  wGroups,     \* the engine's header: how many data groups it holds
  wSnap,       \* history: <<wAuthor, wGroups>> when finalize_measurement last returned
  wStart,      \* the last start_measurement: the time the caller gave and the
               \* time the engine received, both -1 before any
  wSaves,      \* history: the save calls: the time given, the start time then in
               \* force, and whether the engine kept the sample
  \* ---- ChannelObserver and CanBusObserver (channelobserver.rs, canbusobserver.rs) ----
  obsSamples,  \* the samples the engine's observer holds
  obsOp,       \* the accessor last called: "none", or one of ObsKinds
  obsBatch,    \* the call was the get_all_* form
  obsIdx,      \* the sample index given to the single-sample accessor
  obsRet,      \* what the single-sample accessor returned
  obsAll       \* what the get_all_* accessor returned

logVars == <<bridge, slot, lockHeld, engineFn, pc, arg, result, overtaken, nOk,
             epc, delivering>>

filterVars == <<filter_str, filter_res>>

metaVars == <<metadata, metaProps, metaWarned, metaRet>>

dumpVars == <<filters, duration, max_samples, mpc, can_filters, running, sigState,
              sigDelivered, sigInCapture, timerArmed, elapsed, message_count,
              savedCount, calls, writerCreated, socketOpened, readError,
              errorLogged, warned, endCause, exit_code,
             finalizeFailed, failedAt, framesRead, savedTo, tracing, metaVars>>

readerVars == <<rd, rdPath, rdNative, rdReleases, rdOp, rdEngine, rdRet, rdHandles,
                rdDangling>>

textVars == <<txKind, engText, txOp, txArg, txRet, txGot, txPrev, txEngineSet>>

colVars == <<colKind, colEngine, colCount, colRet>>

ownVars == <<nat, wr, ownKind>>

writerVars == <<wCalls, wAuthor, wGroups, wSnap, wStart, wSaves>>

obsVars == <<obsSamples, obsOp, obsBatch, obsIdx, obsRet, obsAll>>

\* the variables of the mf4-candump tool and of the logging bridge
appVars == <<logVars, filterVars, dumpVars>>

\* the variables of the wrapper types of the mdflib crate
libVars == <<readerVars, textVars, colVars, ownVars, writerVars, obsVars>>

vars == <<appVars, libVars>>

(***************************************************************************)
(* The wrapper types before the program has created any of them.           *)
(***************************************************************************)
ReaderIdle ==
  /\ rd = "absent"
  /\ rdPath = <<>>
  /\ rdNative = "none"
  /\ rdReleases = 0
  /\ rdOp = "none"
  /\ rdEngine = "none"
  /\ rdRet = <<"none", <<>>>>
  /\ rdHandles = {}
  /\ rdDangling = FALSE

TextIdle ==
  /\ txKind = "Header"
  /\ engText = <<>>
  /\ txOp = "none"
  /\ txArg = <<>>
  /\ txRet = "none"
  /\ txGot = <<>>
  /\ txPrev = <<>>
  /\ txEngineSet = FALSE

ColIdle ==
  /\ colKind = "none"
  /\ colEngine = <<>>
  /\ colCount = -1
  /\ colRet = <<>>

\* no native object allocated, no wrapper held
FreeNative == [by |-> "free", releases |-> 0, ownerDropped |-> FALSE, rawDropped |-> FALSE]

NoWrapper == [type |-> "none", ptr |-> 0, owned |-> FALSE]

OwnIdle ==
  /\ ownKind = "MdfReader"
  /\ nat = [n \in 1..MaxNatives |-> FreeNative]
  /\ wr = [w \in 1..MaxWrappers |-> NoWrapper]

WriterIdle ==
  /\ wCalls = {}
  /\ wAuthor = <<>>
  /\ wGroups = 0
  /\ wSnap = <<>>
  /\ wStart = [given |-> -1, engine |-> -1]
  /\ wSaves = <<>>

ObsIdle ==
  /\ obsSamples = <<>>
  /\ obsOp = "none"
  /\ obsBatch = FALSE
  /\ obsIdx = 0
  /\ obsRet = <<"None", 0>>
  /\ obsAll = <<>>

LibIdle ==
  /\ ObsIdle
  /\ ReaderIdle
  /\ TextIdle
  /\ ColIdle
  /\ OwnIdle
  /\ WriterIdle

(***************************************************************************)
(* parse_can_filter.  A string is a sequence of one-character strings.     *)
(***************************************************************************)
\* A u32 is held as two 16-bit limbs <<high, low>>, its value being
\* high * Limb + low; ParseErr stands for an Err of the parse.
Limb == 65536
ParseErr == <<-1, -1>>
IsErr(v) == v[1] < 0
U32(n) == <<n \div Limb, n % Limb>>

DecDigits == <<"0", "1", "2", "3", "4", "5", "6", "7", "8", "9">>
LowerHex == <<"a", "b", "c", "d", "e", "f">>
UpperHex == <<"A", "B", "C", "D", "E", "F">>

IndexOf(seq, c) == CHOOSE i \in 1..Len(seq) : seq[i] = c
InSeq(seq, c) == \E i \in 1..Len(seq) : seq[i] = c

\* char::to_digit(radix): the digit's value, or -1 when c is no digit of the radix
ToDigit(c, radix) ==
  IF InSeq(DecDigits, c) THEN IndexOf(DecDigits, c) - 1
  ELSE IF radix = 16 /\ InSeq(LowerHex, c) THEN 9 + IndexOf(LowerHex, c)
  ELSE IF radix = 16 /\ InSeq(UpperHex, c) THEN 9 + IndexOf(UpperHex, c)
  ELSE -1

\* The digits of u32::from_str_radix, accumulated from the left
\* (acc * radix + digit, checked): an Err on a character that is no digit of
\* the radix, and on overflow of u32.
RECURSIVE ParseDigits(_, _, _)
ParseDigits(digits, radix, acc) ==
  IF digits = <<>> THEN acc
  ELSE LET d == ToDigit(Head(digits), radix)
           low == acc[2] * radix + d
           high == acc[1] * radix + (low \div Limb) IN
       IF d < 0 THEN ParseErr
       ELSE IF high >= Limb THEN ParseErr
       ELSE ParseDigits(Tail(digits), radix, <<high, low % Limb>>)

\* u32::from_str_radix(s, radix).  An empty string and a lone sign are errors;
\* one leading "+" is accepted; "-" is no digit of an unsigned type.
FromStrRadix(s, radix) ==
  IF s = <<>> THEN ParseErr
  ELSE IF Head(s) \in {"+", "-"} /\ Tail(s) = <<>> THEN ParseErr
  ELSE IF Head(s) = "+" THEN ParseDigits(Tail(s), radix, <<0, 0>>)
  ELSE ParseDigits(s, radix, <<0, 0>>)

\* str::trim_start_matches("0x"): every leading repetition of "0x" is removed.
RECURSIVE TrimStartMatches0x(_)
TrimStartMatches0x(s) ==
  IF Len(s) >= 2 /\ s[1] = "0" /\ s[2] = "x"
    THEN TrimStartMatches0x(SubSeq(s, 3, Len(s)))
    ELSE s

\* str::split(','): the parts between the commas (one part when there is none).
RECURSIVE SplitComma(_, _)
SplitComma(s, cur) ==
  IF s = <<>> THEN <<cur>>
  ELSE IF Head(s) = "," THEN <<cur>> \o SplitComma(Tail(s), <<>>)
  ELSE SplitComma(Tail(s), Append(cur, Head(s)))

\* u32::from_str_radix(part.trim_start_matches("0x"), 16)
\*     .or_else(|_| part.parse::<u32>())
ParsePart(part) ==
  LET hex == FromStrRadix(TrimStartMatches0x(part), 16) IN
  IF ~IsErr(hex) THEN hex ELSE FromStrRadix(part, 10)

FilterErr == [done |-> TRUE, ok |-> FALSE, id |-> U32(0), mask |-> U32(0)]
FilterPending == [done |-> FALSE, ok |-> FALSE, id |-> U32(0), mask |-> U32(0)]

\* parse_can_filter(filter_str)
ParseCanFilter(str) ==
  LET parts == SplitComma(str, <<>>) IN
  IF Len(parts) # 2 THEN FilterErr
  ELSE LET id == ParsePart(parts[1])
           mask == ParsePart(parts[2]) IN
       IF IsErr(id) THEN FilterErr
       ELSE IF IsErr(mask) THEN FilterErr
       ELSE [done |-> TRUE, ok |-> TRUE, id |-> id, mask |-> mask]

\* The strings parse_can_filter is applied to: every string of at most
\* MaxFilterLen characters of FilterAlphabet, and the named examples.
FilterAlphabet == {"0", "1", "9", "b", "x", ","}

RECURSIVE StringsUpTo(_)
StringsUpTo(n) ==
  IF n = 0 THEN {<<>>}
  ELSE LET shorter == StringsUpTo(n - 1) IN
       shorter \cup {Append(w, c) : w \in shorter, c \in FilterAlphabet}

ExHexFilter == <<"0", "x", "1", "2", "3", ",", "0", "x", "7", "F", "F">>
ExDecFilter == <<"2", "9", "1", ",", "2", "0", "4", "7">>
ExBad == <<"b", "a", "d">>
ExBadPart == <<"b", "a", "d", ",", "1">>
ExBigDec == <<"4", "2", "9", "4", "9", "6", "7", "2", "9", "5", ",", "0">>
ExTooBig == <<"4", "2", "9", "4", "9", "6", "7", "2", "9", "6", ",", "0">>
ExThreeParts == <<"1", ",", "2", ",", "3">>
ExUpperPrefix == <<"0", "X", "1", ",", "1">>
ExPlus == <<"+", "1", ",", "-", "1">>

FilterExamples ==
  {ExHexFilter, ExDecFilter, ExBad, ExBadPart, ExBigDec, ExTooBig,
   ExThreeParts, ExUpperPrefix, ExPlus}

FilterInputs == StringsUpTo(MaxFilterLen) \cup FilterExamples

FilterIdle ==
  /\ filter_str = <<>>
  /\ filter_res = FilterPending

(***************************************************************************)
(* mf4-candump: main, setup_mdf_writer, log_can_messages and the signal    *)
(* task.  The engine's and the socket's answers are chosen by the          *)
(* environment at each call.                                               *)
(***************************************************************************)
NoneOpt == -1
Running == -1

\* message_count is a u64 that only the test against max_samples reads.
\* Values above MaxSamples are not told apart: the counter stays at CountCap.
CountCap == MaxSamples + 1
Bump(n) == IF n < CountCap THEN n + 1 ELSE n

DumpFilterArgs == {<<"0", "x", "1", ",", "9">>, ExBad}

RECURSIVE SeqsUpTo(_, _)
SeqsUpTo(S, n) ==
  IF n = 0 THEN {<<>>}
  ELSE LET shorter == SeqsUpTo(S, n - 1) IN
       shorter \cup {Append(w, x) : w \in shorter, x \in S}

\* the position of the first string parse_can_filter rejects, 0 when there is none
FirstMalformed(fs) ==
  IF \E i \in 1..Len(fs) : ~ParseCanFilter(fs[i]).ok
    THEN CHOOSE i \in 1..Len(fs) :
           /\ ~ParseCanFilter(fs[i]).ok
           /\ \A j \in 1..(i - 1) : ParseCanFilter(fs[j]).ok
    ELSE 0

\* args.metadata = None (no -m)
NoMeta == [some |-> FALSE, entries |-> <<>>]

MetaIdle ==
  /\ metadata = NoMeta
  /\ metaProps = <<>>
  /\ metaWarned = <<>>
  /\ metaRet = "none"

DumpFixed ==
  /\ MetaIdle
  /\ finalizeFailed = FALSE
  /\ failedAt = "none"
  /\ framesRead = <<>>
  /\ savedTo = <<>>
  /\ mpc = "main"
  /\ can_filters = <<>>
  /\ running = TRUE
  /\ sigState = "off"
  /\ sigDelivered = FALSE
  /\ sigInCapture = FALSE
  /\ timerArmed = FALSE
  /\ elapsed = FALSE
  /\ message_count = 0
  /\ savedCount = 0
  /\ calls = <<>>
  /\ writerCreated = FALSE
  /\ socketOpened = FALSE
  /\ readError = FALSE
  /\ errorLogged = FALSE
  /\ warned = FALSE
  /\ endCause = "none"
  /\ exit_code = Running

DumpIdle ==
  /\ tracing = FALSE
  /\ filters = <<>>
  /\ duration = NoneOpt
  /\ max_samples = NoneOpt
  /\ DumpFixed

\* main returns Err: the process exits non-zero.
ExitErr ==
  /\ mpc' = "exited"
  /\ exit_code' = 1

\* main, lines 337-350: the engine's log output is bridged, then every -f
\* string is parsed; the first malformed one is logged and returned.
ParseFiltersMutSkipBad ==
  /\ mpc = "main"
  /\ can_filters' = [i \in 1..Len(filters) |-> ParseCanFilter(filters[i])]
  /\ mpc' = "signal"
  /\ UNCHANGED <<libVars, logVars, filterVars, tracing, metaVars, finalizeFailed, failedAt, framesRead, savedTo,
                 filters, duration, max_samples, running, sigState, sigDelivered,
                 sigInCapture, timerArmed, elapsed, message_count, savedCount,
                 calls, writerCreated, socketOpened, readError, errorLogged,
                 warned, endCause, exit_code>>

ParseFilters ==
  /\ mpc = "main"
  /\ LET bad == FirstMalformed(filters) IN
     IF bad # 0
       THEN /\ can_filters' = [i \in 1..(bad - 1) |-> ParseCanFilter(filters[i])]
            /\ errorLogged' = TRUE
            /\ failedAt' = "filters"
            /\ ExitErr
       ELSE /\ can_filters' = [i \in 1..Len(filters) |-> ParseCanFilter(filters[i])]
            /\ mpc' = "signal"
            /\ UNCHANGED <<errorLogged, exit_code, failedAt>>
  /\ UNCHANGED <<libVars, logVars, filterVars, tracing, metaVars, finalizeFailed, framesRead, savedTo,
                 filters, duration, max_samples, running, sigState, sigDelivered,
                 sigInCapture, timerArmed, elapsed, message_count, savedCount,
                 calls, writerCreated, socketOpened, readError, warned, endCause>>

\* setup_signal_handler: Signals::new([SIGINT, SIGTERM])? and tokio::spawn.
SetupSignalHandler ==
  /\ mpc = "signal"
  /\ \E ok \in BOOLEAN :
       IF ok
         THEN /\ sigState' = "listening"
              /\ mpc' = "writer_new"
              /\ UNCHANGED <<exit_code, failedAt>>
         ELSE /\ failedAt' = "signal"
              /\ ExitErr
              /\ UNCHANGED sigState
  /\ UNCHANGED <<libVars, logVars, filterVars, tracing, metaVars, finalizeFailed, framesRead, savedTo,
                 filters, duration, max_samples, can_filters, running, sigDelivered,
                 sigInCapture, timerArmed, elapsed, message_count, savedCount,
                 calls, writerCreated, socketOpened, readError, errorLogged,
                 warned, endCause>>

\* setup_mdf_writer, lines 91-92: MdfWriter::new(MdfBusLogger, file_path)?
SetupWriterNew ==
  /\ mpc = "writer_new"
  /\ writerCreated' = TRUE
  /\ \E ok \in BOOLEAN :
       IF ok
         THEN /\ mpc' = "bus_log"
              /\ UNCHANGED <<exit_code, failedAt>>
         ELSE /\ failedAt' = "writer_new"
              /\ ExitErr
  /\ UNCHANGED <<libVars, logVars, filterVars, tracing, metaVars, finalizeFailed, framesRead, savedTo,
                 filters, duration, max_samples, can_filters, running, sigState,
                 sigDelivered, sigInCapture, timerArmed, elapsed, message_count,
                 savedCount, calls, socketOpened, readError, errorLogged, warned,
                 endCause>>

\* setup_mdf_writer, lines 95-99: set_bus_type, create_bus_log_configuration
SetupBusLogMutIgnoreFailure ==
  /\ mpc = "bus_log"
  /\ calls' = calls \o <<"set_bus_type", "create_bus_log_configuration">>
  /\ \E ok \in BOOLEAN :
       failedAt' = IF ok THEN failedAt ELSE "bus_log"
  /\ mpc' = "header"
  /\ UNCHANGED <<libVars, logVars, filterVars, tracing, metaVars, finalizeFailed, framesRead, savedTo,
                 filters, duration, max_samples, can_filters, running, sigState,
                 sigDelivered, sigInCapture, timerArmed, elapsed, message_count,
                 savedCount, writerCreated, socketOpened, readError, errorLogged,
                 warned, endCause, exit_code>>

SetupBusLog ==
  /\ mpc = "bus_log"
  /\ calls' = calls \o <<"set_bus_type", "create_bus_log_configuration">>
  /\ \E ok \in BOOLEAN :
       IF ok
         THEN /\ mpc' = "header"
              /\ UNCHANGED <<exit_code, failedAt>>
         ELSE /\ failedAt' = "bus_log"
              /\ ExitErr
  /\ UNCHANGED <<libVars, logVars, filterVars, tracing, metaVars, finalizeFailed, framesRead, savedTo,
                 filters, duration, max_samples, can_filters, running, sigState,
                 sigDelivered, sigInCapture, timerArmed, elapsed, message_count,
                 savedCount, writerCreated, socketOpened, readError, errorLogged,
                 warned, endCause>>

\* setup_mdf_writer, lines 102-136: the header and the file history are
\* filled in (the -m entries are SetupMetadata's; these runs have none), then
\* init_measurement is called.
SetupInitMutIgnoreFailure ==
  /\ mpc = "header"
  /\ calls' = Append(calls, "init_measurement")
  /\ \E ok \in BOOLEAN :
       failedAt' = IF ok THEN failedAt ELSE "init"
  /\ mpc' = "open"
  /\ UNCHANGED <<libVars, logVars, filterVars, tracing, metaVars, finalizeFailed, framesRead, savedTo,
                 filters, duration, max_samples, can_filters, running, sigState,
                 sigDelivered, sigInCapture, timerArmed, elapsed, message_count,
                 savedCount, writerCreated, socketOpened, readError, errorLogged,
                 warned, endCause, exit_code>>

SetupInit ==
  /\ mpc = "header"
  /\ calls' = Append(calls, "init_measurement")
  /\ \E ok \in BOOLEAN :
       IF ok
         THEN /\ mpc' = "open"
              /\ UNCHANGED <<exit_code, failedAt>>
         ELSE /\ failedAt' = "init"
              /\ ExitErr
  /\ UNCHANGED <<libVars, logVars, filterVars, tracing, metaVars, finalizeFailed, framesRead, savedTo,
                 filters, duration, max_samples, can_filters, running, sigState,
                 sigDelivered, sigInCapture, timerArmed, elapsed, message_count,
                 savedCount, writerCreated, socketOpened, readError, errorLogged,
                 warned, endCause>>

\* main, lines 395-398: log_can_messages returned Err
LogFailed ==
  /\ errorLogged' = TRUE
  /\ ExitErr

\* log_can_messages, lines 159-173: the socket is opened and, when there are
\* filters, set_filters is called; each may fail.
OpenSocket ==
  /\ mpc = "open"
  /\ \E opened \in BOOLEAN, filtered \in BOOLEAN :
       /\ socketOpened' = opened
       /\ IF opened /\ (can_filters = <<>> \/ filtered)
            THEN /\ mpc' = "start"
                 /\ UNCHANGED <<errorLogged, exit_code, failedAt>>
            ELSE /\ failedAt' = "open"
                 /\ LogFailed
  /\ UNCHANGED <<libVars, logVars, filterVars, tracing, metaVars, finalizeFailed, framesRead, savedTo,
                 filters, duration, max_samples, can_filters, running, sigState,
                 sigDelivered, sigInCapture, timerArmed, elapsed, message_count,
                 savedCount, calls, writerCreated, readError, warned, endCause>>

\* log_can_messages, lines 176-197: start_measurement, then the header, the
\* last data group and the three channel groups are looked up, each with
\* .context(..)?
StartMeasurement ==
  /\ mpc = "start"
  /\ calls' = Append(calls, "start_measurement")
  /\ \E found \in BOOLEAN :
       IF found
         THEN /\ mpc' = "select"
              /\ UNCHANGED <<errorLogged, exit_code, failedAt>>
         ELSE /\ failedAt' = "lookup"
              /\ LogFailed
  /\ UNCHANGED <<libVars, logVars, filterVars, tracing, metaVars, finalizeFailed, framesRead, savedTo,
                 filters, duration, max_samples, can_filters, running, sigState,
                 sigDelivered, sigInCapture, timerArmed, elapsed, message_count,
                 savedCount, writerCreated, socketOpened, readError, warned,
                 endCause>>

CaptureStates == {"select", "loop_top", "limit", "read", "yield_wb", "yield_err"}
Durations == {NoneOpt, 0, 1}

\* tokio::select!, lines 214-218, polled for the first time.  The branches are
\* polled in a random order.  When timeout_future is polled first its sleep is
\* registered, and a sleep of 0 seconds is ready at once; otherwise the loop
\* runs first.
SelectFirstPoll ==
  /\ mpc = "select"
  /\ \E timeoutFirst \in BOOLEAN :
       IF timeoutFirst /\ duration # NoneOpt
         THEN /\ timerArmed' = TRUE
              /\ IF duration = 0
                   THEN /\ elapsed' = TRUE
                        /\ endCause' = "timeout"
                        /\ mpc' = "stop"
                   ELSE /\ mpc' = "loop_top"
                        /\ UNCHANGED <<elapsed, endCause>>
         ELSE /\ mpc' = "loop_top"
              /\ UNCHANGED <<timerArmed, elapsed, endCause>>
  /\ UNCHANGED <<libVars, logVars, filterVars, tracing, metaVars, finalizeFailed, failedAt, framesRead, savedTo,
                 filters, duration, max_samples, can_filters, running, sigState,
                 sigDelivered, sigInCapture, message_count, savedCount, calls,
                 writerCreated, socketOpened, readError, errorLogged, warned,
                 exit_code>>

\* line 219: while running.load(Ordering::Relaxed)
LoopTopMutIgnoreFlag ==
  /\ mpc = "loop_top"
  /\ mpc' = "limit"
  /\ UNCHANGED <<libVars, logVars, filterVars, tracing, metaVars, finalizeFailed, failedAt, framesRead, savedTo,
                 filters, duration, max_samples, can_filters, running, sigState,
                 sigDelivered, sigInCapture, timerArmed, elapsed, message_count,
                 savedCount, calls, writerCreated, socketOpened, readError,
                 errorLogged, warned, endCause, exit_code>>

LoopTop ==
  /\ mpc = "loop_top"
  /\ IF running
       THEN /\ mpc' = "limit"
            /\ UNCHANGED endCause
       ELSE /\ mpc' = "stop"
            /\ endCause' = "flag"
  /\ UNCHANGED <<libVars, logVars, filterVars, tracing, metaVars, finalizeFailed, failedAt, framesRead, savedTo,
                 filters, duration, max_samples, can_filters, running, sigState,
                 sigDelivered, sigInCapture, timerArmed, elapsed, message_count,
                 savedCount, calls, writerCreated, socketOpened, readError,
                 errorLogged, warned, exit_code>>

\* lines 221-226: if let Some(max) = max_samples { if message_count >= max { break } }
CheckLimitMutOffByOne ==
  /\ mpc = "limit"
  /\ IF max_samples # NoneOpt /\ message_count > max_samples
       THEN /\ mpc' = "stop"
            /\ endCause' = "limit"
       ELSE /\ mpc' = "read"
            /\ UNCHANGED endCause
  /\ UNCHANGED <<libVars, logVars, filterVars, tracing, metaVars, finalizeFailed, failedAt, framesRead, savedTo,
                 filters, duration, max_samples, can_filters, running, sigState,
                 sigDelivered, sigInCapture, timerArmed, elapsed, message_count,
                 savedCount, calls, writerCreated, socketOpened, readError,
                 errorLogged, warned, exit_code>>

CheckLimit ==
  /\ mpc = "limit"
  /\ IF max_samples # NoneOpt /\ message_count >= max_samples
       THEN /\ mpc' = "stop"
            /\ endCause' = "limit"
       ELSE /\ mpc' = "read"
            /\ UNCHANGED endCause
  /\ UNCHANGED <<libVars, logVars, filterVars, tracing, metaVars, finalizeFailed, failedAt, framesRead, savedTo,
                 filters, duration, max_samples, can_filters, running, sigState,
                 sigDelivered, sigInCapture, timerArmed, elapsed, message_count,
                 savedCount, calls, writerCreated, socketOpened, readError,
                 errorLogged, warned, exit_code>>

\* The loop's future returns Pending: select! has polled, or now polls,
\* timeout_future as well, which registers its sleep.
ArmTimer ==
  /\ timerArmed' = (duration # NoneOpt)
  /\ elapsed' = (elapsed \/ (duration = 0))

\* lines 189-197 and 246-256: the channel group a frame of each class is
\* saved to
GroupOfMutSwapped(class) ==
  CASE class = "data" -> "CAN_DataFrame"
    [] class = "error" -> "CAN_RemoteFrame"
    [] class = "remote" -> "CAN_ErrorFrame"

GroupOf(class) ==
  CASE class = "data" -> "CAN_DataFrame"
    [] class = "error" -> "CAN_ErrorFrame"
    [] class = "remote" -> "CAN_RemoteFrame"

FrameClasses == {"data", "error", "remote"}

\* The histories framesRead, savedTo and the saves in calls keep the first
\* CountCap frames only, as message_count does, and only in a traced run.
RecordFrame(class) ==
  IF tracing /\ Len(framesRead) < CountCap
    THEN /\ framesRead' = Append(framesRead, class)
         /\ savedTo' = Append(savedTo, [group |-> GroupOf(class),
                                        frame |-> Len(framesRead) + 1])
         /\ calls' = Append(calls, "save_can_message")
    ELSE UNCHANGED <<framesRead, savedTo, calls>>

\* lines 228-275: socket.read_frame().  A frame of either class is saved to
\* its channel group and counted; WouldBlock sleeps 50 ns; any other error
\* is logged and sleeps 10 ms before it is returned.
ReadFrame ==
  /\ mpc = "read"
  /\ \E outcome \in FrameClasses \cup {"would_block", "io_error"} :
       IF outcome \in FrameClasses
         THEN /\ RecordFrame(outcome)
              /\ savedCount' = Bump(savedCount)
              /\ message_count' = Bump(message_count)
              /\ mpc' = "loop_top"
              /\ UNCHANGED <<timerArmed, elapsed, readError, errorLogged>>
         ELSE IF outcome = "would_block"
           THEN /\ mpc' = "yield_wb"
                /\ ArmTimer
                /\ UNCHANGED <<savedCount, message_count, readError, errorLogged,
                               framesRead, savedTo, calls>>
           ELSE /\ mpc' = "yield_err"
                /\ readError' = TRUE
                /\ errorLogged' = TRUE
                /\ ArmTimer
                /\ UNCHANGED <<savedCount, message_count, framesRead, savedTo, calls>>
  /\ UNCHANGED <<libVars, logVars, filterVars, tracing, metaVars, finalizeFailed, failedAt,
                 filters, duration, max_samples, can_filters, running, sigState,
                 sigDelivered, sigInCapture, writerCreated, socketOpened,
                 warned, endCause, exit_code>>

\* line 272: the 50 ns sleep is over and the loop is polled again
ResumeWouldBlockMutBreak ==
  /\ mpc = "yield_wb"
  /\ mpc' = "stop"
  /\ UNCHANGED <<libVars, logVars, filterVars, tracing, metaVars, finalizeFailed, failedAt, framesRead, savedTo,
                 filters, duration, max_samples, can_filters, running, sigState,
                 sigDelivered, sigInCapture, timerArmed, elapsed, message_count,
                 savedCount, calls, writerCreated, socketOpened, readError,
                 errorLogged, warned, endCause, exit_code>>

ResumeWouldBlock ==
  /\ mpc = "yield_wb"
  /\ mpc' = "loop_top"
  /\ UNCHANGED <<libVars, logVars, filterVars, tracing, metaVars, finalizeFailed, failedAt, framesRead, savedTo,
                 filters, duration, max_samples, can_filters, running, sigState,
                 sigDelivered, sigInCapture, timerArmed, elapsed, message_count,
                 savedCount, calls, writerCreated, socketOpened, readError,
                 errorLogged, warned, endCause, exit_code>>

\* lines 268-269 and 278-282: the 10 ms sleep is over, the loop's future
\* returns Err(e) and the select! arm logs it.
ResumeErrorMutPropagate ==
  /\ mpc = "yield_err"
  /\ mpc' = "exited"
  /\ exit_code' = 1
  /\ endCause' = "error"
  /\ errorLogged' = TRUE
  /\ UNCHANGED <<libVars, logVars, filterVars, tracing, metaVars, finalizeFailed, failedAt, framesRead, savedTo,
                 filters, duration, max_samples, can_filters, running, sigState,
                 sigDelivered, sigInCapture, timerArmed, elapsed, message_count,
                 savedCount, calls, writerCreated, socketOpened, readError,
                 warned>>

ResumeError ==
  /\ mpc = "yield_err"
  /\ mpc' = "stop"
  /\ endCause' = "error"
  /\ errorLogged' = TRUE
  /\ UNCHANGED <<libVars, logVars, filterVars, tracing, metaVars, finalizeFailed, failedAt, framesRead, savedTo,
                 filters, duration, max_samples, can_filters, running, sigState,
                 sigDelivered, sigInCapture, timerArmed, elapsed, message_count,
                 savedCount, calls, writerCreated, socketOpened, readError,
                 warned, exit_code>>

\* lines 203-217: the sleep of timeout_future has expired and select! polls
\* it while the loop is suspended: the timeout arm runs and the loop's future
\* is dropped.
TimeoutArm ==
  /\ mpc \in {"yield_wb", "yield_err"}
  /\ elapsed
  /\ mpc' = "stop"
  /\ endCause' = "timeout"
  /\ UNCHANGED <<libVars, logVars, filterVars, tracing, metaVars, finalizeFailed, failedAt, framesRead, savedTo,
                 filters, duration, max_samples, can_filters, running, sigState,
                 sigDelivered, sigInCapture, timerArmed, elapsed, message_count,
                 savedCount, calls, writerCreated, socketOpened, readError,
                 errorLogged, warned, exit_code>>

\* line 205: the registered sleep expires (wall-clock time passes)
TimerExpires ==
  /\ mpc \in CaptureStates
  /\ timerArmed
  /\ ~elapsed
  /\ elapsed' = TRUE
  /\ UNCHANGED <<libVars, logVars, filterVars, tracing, metaVars, finalizeFailed, failedAt, framesRead, savedTo,
                 filters, duration, max_samples, mpc, can_filters, running, sigState,
                 sigDelivered, sigInCapture, timerArmed, message_count,
                 savedCount, calls, writerCreated, socketOpened, readError,
                 errorLogged, warned, endCause, exit_code>>

\* lines 285-293: writer.stop_measurement(stop_time)
StopMeasurement ==
  /\ mpc = "stop"
  /\ calls' = Append(calls, "stop_measurement")
  /\ mpc' = "finalize"
  /\ UNCHANGED <<libVars, logVars, filterVars, tracing, metaVars, finalizeFailed, failedAt, framesRead, savedTo,
                 filters, duration, max_samples, can_filters, running, sigState,
                 sigDelivered, sigInCapture, timerArmed, elapsed, message_count,
                 savedCount, writerCreated, socketOpened, readError,
                 errorLogged, warned, endCause, exit_code>>

\* lines 295-300 and 391-394: finalize_measurement, a warning when it reports
\* failure, Ok(()) from log_can_messages and from main.
FinalizeMeasurementMutFail ==
  /\ mpc = "finalize"
  /\ calls' = Append(calls, "finalize_measurement")
  /\ \E ok \in BOOLEAN :
       /\ finalizeFailed' = ~ok
       /\ warned' = ~ok
       /\ exit_code' = IF ok THEN 0 ELSE 1
  /\ mpc' = "exited"
  /\ UNCHANGED <<libVars, logVars, filterVars, tracing, metaVars, failedAt, framesRead, savedTo,
                 filters, duration, max_samples, can_filters, running, sigState,
                 sigDelivered, sigInCapture, timerArmed, elapsed, message_count,
                 savedCount, writerCreated, socketOpened, readError,
                 errorLogged, endCause>>

FinalizeMeasurement ==
  /\ mpc = "finalize"
  /\ calls' = Append(calls, "finalize_measurement")
  /\ \E ok \in BOOLEAN :
       /\ finalizeFailed' = ~ok
       /\ warned' = (~ok)
  /\ mpc' = "exited"
  /\ exit_code' = 0
  /\ UNCHANGED <<libVars, logVars, filterVars, tracing, metaVars, failedAt, framesRead, savedTo,
                 filters, duration, max_samples, can_filters, running, sigState,
                 sigDelivered, sigInCapture, timerArmed, elapsed, message_count,
                 savedCount, writerCreated, socketOpened, readError,
                 errorLogged, endCause>>

\* SIGINT or SIGTERM reaches the process while the handler is installed.
SignalDelivered ==
  /\ exit_code = Running
  /\ sigState = "listening"
  /\ ~sigDelivered
  /\ sigDelivered' = TRUE
  /\ sigInCapture' = (mpc \in CaptureStates)
  /\ UNCHANGED <<libVars, logVars, filterVars, tracing, metaVars, finalizeFailed, failedAt, framesRead, savedTo,
                 filters, duration, max_samples, mpc, can_filters, running, sigState,
                 timerArmed, elapsed, message_count, savedCount, calls,
                 writerCreated, socketOpened, readError, errorLogged, warned,
                 endCause, exit_code>>

\* setup_signal_handler, lines 310-323: the spawned task receives the signal,
\* stores false in the flag and ends.
SignalTask ==
  /\ exit_code = Running
  /\ sigState = "listening"
  /\ sigDelivered
  /\ running' = FALSE
  /\ sigState' = "done"
  /\ UNCHANGED <<libVars, logVars, filterVars, tracing, metaVars, finalizeFailed, failedAt, framesRead, savedTo,
                 filters, duration, max_samples, mpc, can_filters, sigDelivered,
                 sigInCapture, timerArmed, elapsed, message_count, savedCount,
                 calls, writerCreated, socketOpened, readError, errorLogged,
                 warned, endCause, exit_code>>

(***************************************************************************)
(* Logging bridge.  set_log_callback_1 and set_log_callback_2 are the same *)
(* code over disjoint state (LOG_CALLBACK_1 and MdfSetLogFunction1,        *)
(* LOG_CALLBACK_2 and MdfSetLogFunction2): a run exercises one of the two, *)
(* chosen in LogInit.                                                      *)
(***************************************************************************)
None == "None"
Shapes == {1, 2}
Callbacks == {"cbA", "cbB"}
Callers == 1..NumCallers
EngineThreads == 1..NumEngineThreads

LogIdle ==
  /\ slot = None
  /\ lockHeld = FALSE
  /\ engineFn = FALSE
  /\ pc = [t \in Callers |-> "idle"]
  /\ arg = [t \in Callers |-> None]
  /\ result = [t \in Callers |-> "none"]
  /\ overtaken = [t \in Callers |-> FALSE]
  /\ nOk = 0
  /\ epc = [e \in EngineThreads |-> "idle"]
  /\ delivering = [e \in EngineThreads |-> None]

LogInit ==
  /\ bridge \in Shapes
  /\ LogIdle
  /\ FilterIdle
  /\ DumpIdle
  /\ LibIdle

engineVars == <<epc, delivering>>

\* A thread enters set_log_callback_N with Some(cb) or None.
CallSetLogCallback(t) ==
  /\ pc[t] = "idle"
  /\ \E a \in Callbacks \cup {None} :
       /\ arg' = [arg EXCEPT ![t] = a]
       /\ pc' = [pc EXCEPT ![t] = IF a = None THEN "take" ELSE "check"]
  /\ result' = [result EXCEPT ![t] = "none"]
  /\ overtaken' = [overtaken EXCEPT ![t] = FALSE]
  /\ UNCHANGED <<libVars, filterVars, dumpVars, bridge, slot, lockHeld, engineFn, nOk, engineVars>>

\* if LOG_CALLBACK_N.lock().unwrap().is_some() { return Err(CallbackError) }
\* The guard is a temporary of the condition: it is released before the body.
InstallCheckMutNoCheck(t) ==
  /\ pc[t] = "check"
  /\ ~lockHeld
  /\ pc' = [pc EXCEPT ![t] = "replace"]
  /\ UNCHANGED <<libVars, filterVars, dumpVars, bridge, slot, lockHeld, engineFn, arg, result, overtaken, nOk, engineVars>>

InstallCheck(t) ==
  /\ pc[t] = "check"
  /\ ~lockHeld
  /\ IF slot # None
       THEN /\ pc' = [pc EXCEPT ![t] = "idle"]
            /\ result' = [result EXCEPT ![t] = "Err"]
       ELSE /\ pc' = [pc EXCEPT ![t] = "replace"]
            /\ UNCHANGED result
  /\ UNCHANGED <<libVars, filterVars, dumpVars, bridge, slot, lockHeld, engineFn, arg, overtaken, nOk, engineVars>>

\* LOG_CALLBACK_N.lock().unwrap().replace(callback);  (a second acquisition)
InstallReplace(t) ==
  /\ pc[t] = "replace"
  /\ ~lockHeld
  /\ slot' = arg[t]
  /\ pc' = [pc EXCEPT ![t] = "register"]
  /\ overtaken' = [u \in Callers |->
                     IF /\ u # t
                        /\ arg[u] = None
                        /\ \/ pc[u] = "unregister"
                           \/ pc[u] = "idle" /\ result[u] = "Ok"
                       THEN TRUE ELSE overtaken[u]]
  /\ UNCHANGED <<libVars, filterVars, dumpVars, bridge, lockHeld, engineFn, arg, result, nOk, engineVars>>

\* ffi::MdfSetLogFunctionN(Some(log_callback_wrapper_N)); Ok(())
InstallRegister(t) ==
  /\ pc[t] = "register"
  /\ engineFn' = TRUE
  /\ pc' = [pc EXCEPT ![t] = "idle"]
  /\ result' = [result EXCEPT ![t] = "Ok"]
  /\ nOk' = nOk + 1
  /\ UNCHANGED <<libVars, filterVars, dumpVars, bridge, slot, lockHeld, arg, overtaken, engineVars>>

\* LOG_CALLBACK_N.lock().unwrap().take();
ClearTake(t) ==
  /\ pc[t] = "take"
  /\ ~lockHeld
  /\ slot' = None
  /\ pc' = [pc EXCEPT ![t] = "unregister"]
  /\ nOk' = 0
  /\ UNCHANGED <<libVars, filterVars, dumpVars, bridge, lockHeld, engineFn, arg, result, overtaken, engineVars>>

\* ffi::MdfSetLogFunctionN(None); Ok(())
ClearUnregister(t) ==
  /\ pc[t] = "unregister"
  /\ engineFn' = FALSE
  /\ pc' = [pc EXCEPT ![t] = "idle"]
  /\ result' = [result EXCEPT ![t] = "Ok"]
  /\ UNCHANGED <<libVars, filterVars, dumpVars, bridge, slot, lockHeld, arg, overtaken, nOk, engineVars>>

\* The engine emits a log record: it reads the function registered for the
\* record's shape and, when there is one, goes on to call it.
EngineEmit(e) ==
  /\ epc[e] = "idle"
  /\ engineFn
  /\ epc' = [epc EXCEPT ![e] = "call"]
  /\ UNCHANGED <<libVars, filterVars, dumpVars, bridge, slot, lockHeld, engineFn, pc, arg, result, overtaken, nOk, delivering>>

\* log_callback_wrapper_N: if let Some(callback) = LOG_CALLBACK_N.lock().unwrap().as_ref()
\* The guard is a temporary of the if-let scrutinee: it is held while the body,
\* the call of the user's callback, runs.
WrapperEnterMutUnlocked(e) ==
  /\ epc[e] = "call"
  /\ ~lockHeld
  /\ IF slot # None
       THEN /\ delivering' = [delivering EXCEPT ![e] = slot]
            /\ epc' = [epc EXCEPT ![e] = "in_callback"]
       ELSE /\ epc' = [epc EXCEPT ![e] = "idle"]
            /\ UNCHANGED delivering
  /\ UNCHANGED <<libVars, filterVars, dumpVars, bridge, slot, lockHeld, engineFn, pc, arg, result, overtaken, nOk>>

WrapperEnter(e) ==
  /\ epc[e] = "call"
  /\ ~lockHeld
  /\ IF slot # None
       THEN /\ lockHeld' = TRUE
            /\ delivering' = [delivering EXCEPT ![e] = slot]
            /\ epc' = [epc EXCEPT ![e] = "in_callback"]
       ELSE /\ epc' = [epc EXCEPT ![e] = "idle"]
            /\ UNCHANGED <<lockHeld, delivering>>
  /\ UNCHANGED <<libVars, filterVars, dumpVars, bridge, slot, engineFn, pc, arg, result, overtaken, nOk>>

\* The user's callback returns; the wrapper's guard is dropped.
CallbackReturn(e) ==
  /\ epc[e] = "in_callback"
  /\ lockHeld' = FALSE
  /\ delivering' = [delivering EXCEPT ![e] = None]
  /\ epc' = [epc EXCEPT ![e] = "idle"]
  /\ UNCHANGED <<libVars, filterVars, dumpVars, bridge, slot, engineFn, pc, arg, result, overtaken, nOk>>

\* The user's callback calls set_log_callback_N, to clear itself or to install
\* again.  Either way the call's first statement is LOG_CALLBACK_N.lock() on
\* the thread whose wrapper still holds the guard.  std::sync::Mutex::lock
\* does not return then (it deadlocks or panics, and the guard is never
\* dropped): the thread stays in "relock".
CallbackReenter(e) ==
  /\ epc[e] = "in_callback"
  /\ lockHeld
  /\ epc' = [epc EXCEPT ![e] = "relock"]
  /\ UNCHANGED <<libVars, filterVars, dumpVars, bridge, slot, lockHeld, engineFn, pc, arg, result, overtaken, nOk, delivering>>

LogNext ==
  \/ \E t \in Callers : CallSetLogCallback(t)
  \/ \E t \in Callers : InstallCheck(t)
  \/ \E t \in Callers : InstallReplace(t)
  \/ \E t \in Callers : InstallRegister(t)
  \/ \E t \in Callers : ClearTake(t)
  \/ \E t \in Callers : ClearUnregister(t)
  \/ \E e \in EngineThreads : EngineEmit(e)
  \/ \E e \in EngineThreads : WrapperEnter(e)
  \/ \E e \in EngineThreads : CallbackReturn(e)
  \/ \E e \in EngineThreads : CallbackReenter(e)

LogSpec == LogInit /\ [][LogNext]_vars

(***************************************************************************)
(* parse_can_filter applied to each string of FilterInputs.                *)
(***************************************************************************)
FilterInit ==
  /\ filter_str \in FilterInputs
  /\ filter_res = FilterPending
  /\ bridge = 1
  /\ LogIdle
  /\ DumpIdle
  /\ LibIdle

ApplyParseCanFilter ==
  /\ ~filter_res.done
  /\ filter_res' = ParseCanFilter(filter_str)
  /\ UNCHANGED <<libVars, filter_str, logVars, dumpVars>>

FilterNext == ApplyParseCanFilter

FilterSpec == FilterInit /\ [][FilterNext]_vars

(***************************************************************************)
(* One run of mf4-candump.                                                 *)
(***************************************************************************)
DumpInit ==
  /\ tracing = FALSE
  /\ filters \in SeqsUpTo(DumpFilterArgs, MaxFilters)
  /\ duration \in Durations
  /\ max_samples \in {NoneOpt} \cup 0..MaxSamples
  /\ DumpFixed
  /\ FilterIdle
  /\ bridge = 1
  /\ LogIdle
  /\ LibIdle

\* the steps of the main task (main, setup_mdf_writer, log_can_messages)
MainTask ==
  \/ ParseFilters
  \/ SetupSignalHandler
  \/ SetupWriterNew
  \/ SetupBusLog
  \/ SetupInit
  \/ OpenSocket
  \/ StartMeasurement
  \/ SelectFirstPoll
  \/ LoopTop
  \/ CheckLimit
  \/ ReadFrame
  \/ ResumeWouldBlock
  \/ ResumeError
  \/ TimeoutArm
  \/ StopMeasurement
  \/ FinalizeMeasurement

DumpNext ==
  \/ MainTask
  \/ TimerExpires
  \/ SignalDelivered
  \/ SignalTask

DumpSpec == DumpInit /\ [][DumpNext]_vars

\* The runtime is tokio's multi-threaded one (#[tokio::main]): the main task
\* and the spawned signal task each keep running; a sleep that is over wakes
\* its task; select! polls its branches in a random order, so a timeout that
\* has expired is taken at one of the loop's suspensions if they recur.
\* One run of mf4-candump without -f, with the histories of the frames kept.
RouteInit ==
  /\ tracing = TRUE
  /\ filters = <<>>
  /\ duration \in Durations
  /\ max_samples \in {NoneOpt} \cup 0..MaxSamples
  /\ DumpFixed
  /\ FilterIdle
  /\ bridge = 1
  /\ LogIdle
  /\ LibIdle

RouteSpec == RouteInit /\ [][DumpNext]_vars

FairDumpSpec ==
  /\ DumpSpec
  /\ WF_vars(MainTask)
  /\ WF_vars(SignalTask)
  /\ SF_vars(TimeoutArm)

(***************************************************************************)
(* Text handed to the engine.  CString::new rejects text with an embedded  *)
(* NUL byte; NulByte stands for that byte in the model's strings.          *)
(***************************************************************************)
NulByte == "NUL"

HasNul(s) == \E i \in DOMAIN s : s[i] = NulByte

OkUnit == <<"Ok", <<>>>>

\* CString::new(s): Err(NulError) for an embedded NUL, the C string otherwise
CStringNew(s) == IF HasNul(s) THEN <<"StringConversion", <<>>>> ELSE <<"Ok", s>>

(***************************************************************************)
(* MdfReader (mdflib/src/reader.rs).  The engine's answers are not decided *)
(* by the wrapper: each call may succeed or fail.                          *)
(***************************************************************************)
ReaderPaths == { <<"a">>, <<"b">>, <<"a", NulByte>> }

HandleKinds == {"file", "header", "data_group"}

EngineAnswers == {"ok", "fail"}

notReader == <<appVars, textVars, colVars, ownVars, writerVars, obsVars>>

\* MdfReader::new(path)
ReaderNew ==
  /\ rd = "absent"
  /\ \E path \in ReaderPaths :
       /\ rdPath' = path
       /\ rdOp' = "new"
       /\ IF CStringNew(path)[1] # "Ok"
            THEN /\ rdRet' = CStringNew(path)
                 /\ rdEngine' = "none"
                 /\ UNCHANGED <<rd, rdNative>>
            ELSE \E ans \in EngineAnswers :
                   /\ rdEngine' = ans
                   /\ IF ans = "fail"
                        THEN /\ rdRet' = <<"FileOpen", path>>
                             /\ UNCHANGED <<rd, rdNative>>
                        ELSE /\ rdRet' = OkUnit
                             /\ rd' = "live"
                             /\ rdNative' = "alive"
  /\ UNCHANGED <<rdReleases, rdHandles, rdDangling, notReader>>

\* an operation that calls the engine and maps its boolean answer:
\* Ok(()) on true, Err(err) on false
ReaderCall(op, err) ==
  /\ rd = "live"
  /\ rdOp' = op
  /\ \E ans \in EngineAnswers :
       /\ rdEngine' = ans
       /\ rdRet' = IF ans = "ok" THEN OkUnit ELSE err
  /\ UNCHANGED <<rd, rdPath, rdNative, rdReleases, rdHandles, rdDangling, notReader>>

ReaderOpen == ReaderCall("open", <<"FileOpen", <<"Failed to open file">>>>)

ReaderReadHeaderMutSwallow ==
  /\ rd = "live"
  /\ rdOp' = "read_header"
  /\ \E ans \in EngineAnswers :
       /\ rdEngine' = ans
       /\ rdRet' = OkUnit
  /\ UNCHANGED <<rd, rdPath, rdNative, rdReleases, rdHandles, rdDangling, notReader>>

ReaderReadHeader == ReaderCall("read_header", <<"HeaderRead", <<>>>>)

ReaderReadMeasurementInfo ==
  ReaderCall("read_measurement_info", <<"MeasurementInfo", <<>>>>)

ReaderReadEverythingButData ==
  ReaderCall("read_everything_but_data", <<"DataRead", <<>>>>)

ReaderReadData == ReaderCall("read_data", <<"DataRead", <<>>>>)

\* MdfReader::close(): an engine call with no result
ReaderClose ==
  /\ rd = "live"
  /\ rdOp' = "close"
  /\ rdEngine' = "none"
  /\ rdRet' = <<"unit", <<>>>>
  /\ UNCHANGED <<rd, rdPath, rdNative, rdReleases, rdHandles, rdDangling, notReader>>

\* get_file / get_header / get_data_group: None for a null pointer, else a
\* handle (MdfFileRef, MdfHeaderRef, DataGroupRef) that borrows nothing
ReaderGetHandle ==
  /\ rd = "live"
  /\ \E h \in HandleKinds, ans \in EngineAnswers :
       /\ rdOp' = "get_" \o h
       /\ rdEngine' = ans
       /\ IF ans = "ok"
            THEN /\ rdRet' = <<"Some", <<h>>>>
                 /\ rdHandles' = rdHandles \cup {h}
            ELSE /\ rdRet' = <<"None", <<>>>>
                 /\ UNCHANGED rdHandles
  /\ UNCHANGED <<rd, rdPath, rdNative, rdReleases, rdDangling, notReader>>

\* Drop for MdfReader: MdfReaderUnInit on the non-null pointer
ReaderDrop ==
  /\ rd = "live"
  /\ rd' = "dropped"
  /\ rdNative' = "released"
  /\ rdReleases' = rdReleases + 1
  /\ UNCHANGED <<rdPath, rdOp, rdEngine, rdRet, rdHandles, rdDangling, notReader>>

\* a getter called on a handle the program holds (e.g. MdfFileRef::get_name):
\* the handle's pointer goes to the engine whatever became of the reader
HandleUse ==
  /\ \E h \in rdHandles :
       /\ rdOp' = "use_" \o h
       /\ rdDangling' = (rdDangling \/ rdNative = "released")
  /\ UNCHANGED <<rd, rdPath, rdNative, rdReleases, rdEngine, rdRet, rdHandles, notReader>>

ReaderInit ==
  /\ ReaderIdle
  /\ TextIdle
  /\ ColIdle
  /\ OwnIdle
  /\ WriterIdle
  /\ ObsIdle
  /\ bridge = 1
  /\ LogIdle
  /\ FilterIdle
  /\ DumpIdle

ReaderNext ==
  \/ ReaderNew
  \/ ReaderOpen
  \/ ReaderReadHeader
  \/ ReaderReadMeasurementInfo
  \/ ReaderReadEverythingButData
  \/ ReaderReadData
  \/ ReaderClose
  \/ ReaderGetHandle
  \/ ReaderDrop
  \/ HandleUse

ReaderSpec == ReaderInit /\ [][ReaderNext]_vars


(***************************************************************************)
(* Text attributes of the entity wrappers: the setters (CString::new, then *)
(* the engine's setter) and the getters (the engine fills a caller's       *)
(* buffer, the wrapper decodes it).  Text is a sequence of bytes: "a" is   *)
(* an ASCII byte, BadByte a byte that is not valid UTF-8, NulByte the      *)
(* terminator.                                                             *)
(***************************************************************************)
BadByte == "xFF"

\* what String::from_utf8_lossy puts in place of an invalid byte
ReplacementChar == "U+FFFD"

\* MdfFileRef::get_name / get_file_name / get_version: [0 as c_char; 1024]
FileBufferLen == 1024

\* CanBusObserverRef::get_name: vec![0u8; 256]
ObserverBufferLen == 256

\* setters that build the C string with CString::new(..).unwrap()
UnwrapKinds == {"Header", "DataGroup", "ChannelGroup", "Channel"}

\* setters that build it with CString::new(..)? and return Result<()>
ResultKinds == {"ETag", "MetaData", "FileHistory", "Event", "Attachment",
                "SourceInformation", "ChannelConversion"}

SetterKinds == UnwrapKinds \cup ResultKinds

\* entities whose text getters read into a fixed buffer; they have no setter
FixedBufferKinds == {"MdfFile", "CanBusObserver"}

TextKinds == SetterKinds \cup FixedBufferKinds

Repeat(n) == [i \in 1..n |-> "a"]

\* lengths of the texts tried: empty, one byte, and around both buffer sizes
TextLens == {0, 1, ObserverBufferLen - 1, ObserverBufferLen,
             FileBufferLen - 1, FileBufferLen}

\* texts an engine can hold (from a file, or from a setter)
EngineTexts == {Repeat(n) : n \in TextLens} \cup { <<"a", BadByte>> }

\* texts a caller can hand to a setter (&str: valid UTF-8, NUL allowed)
SetterTexts == {Repeat(n) : n \in TextLens} \cup { <<"a", NulByte, "a">>, <<NulByte>> }

\* the engine's getter called with a buffer of cap bytes (cap = 0: a null
\* buffer): it returns the length of the text and writes at most cap - 1
\* bytes and a terminator.  Result: <<returned length, buffer contents>>.
EngineGetText(text, cap) ==
  IF cap = 0
    THEN { <<Len(text), <<>> >> }
    ELSE IF Len(text) < cap
      THEN { <<Len(text), text \o [i \in 1..(cap - Len(text)) |-> NulByte]>> }
      ELSE { <<n, SubSeq(text, 1, cap - 1) \o <<NulByte>> >> :
               n \in {Len(text), cap - 1} }

\* the index of the first NUL byte of buf[lo..hi], or 0 if it has none
RECURSIVE FirstNul(_, _, _)
FirstNul(buf, lo, hi) ==
  IF lo > hi THEN 0
  ELSE IF lo = hi THEN (IF buf[lo] = NulByte THEN lo ELSE 0)
  ELSE LET mid == (lo + hi) \div 2
           left == FirstNul(buf, lo, mid)
       IN IF left # 0 THEN left ELSE FirstNul(buf, mid + 1, hi)

\* CStr::from_ptr(buf): the bytes before the first NUL
CStrFrom(buf) ==
  LET n == FirstNul(buf, 1, Len(buf))
  IN IF n = 0 THEN buf ELSE SubSeq(buf, 1, n - 1)

\* to_string_lossy / String::from_utf8_lossy
Utf8Lossy(bytes) ==
  [i \in 1..Len(bytes) |-> IF bytes[i] = BadByte THEN ReplacementChar ELSE bytes[i]]

\* the two-call getters (IHeaderGetAuthor and the like): length first, then
\* a buffer of length + 1
TwoCallGet(text) ==
  LET len == CHOOSE l \in {r[1] : r \in EngineGetText(text, 0)} : TRUE
  IN IF len = 0 THEN { <<>> }
     ELSE { Utf8Lossy(CStrFrom(r[2])) : r \in EngineGetText(text, len + 1) }

\* MdfFileRef::get_name / get_file_name / get_version
FileGet(text) ==
  { Utf8Lossy(CStrFrom(r[2])) : r \in EngineGetText(text, FileBufferLen) }

\* CanBusObserverRef::get_name
ObserverGet(text) ==
  { IF r[1] > 0 /\ r[1] < ObserverBufferLen
      THEN Utf8Lossy(SubSeq(r[2], 1, r[1]))
      ELSE <<>> : r \in EngineGetText(text, ObserverBufferLen) }

GetText(kind, text) ==
  CASE kind = "MdfFile" -> FileGet(text)
    [] kind = "CanBusObserver" -> ObserverGet(text)
    [] OTHER -> TwoCallGet(text)

notText == <<appVars, readerVars, colVars, ownVars, writerVars, obsVars>>

\* a text setter of the entity (set_name, set_author, set_description, ...)
TextSet ==
  /\ txKind \in SetterKinds
  /\ \E s \in SetterTexts :
       /\ txOp' = "set"
       /\ txArg' = s
       /\ txPrev' = engText
       /\ IF CStringNew(s)[1] = "Ok"
            THEN /\ engText' = CStringNew(s)[2]
                 /\ txEngineSet' = TRUE
                 /\ txRet' = IF txKind \in UnwrapKinds THEN "unit" ELSE "Ok"
            ELSE /\ UNCHANGED engText
                 /\ txEngineSet' = FALSE
                 /\ txRet' = IF txKind \in UnwrapKinds THEN "panic" ELSE "Err"
  /\ UNCHANGED <<txKind, txGot, notText>>

\* a text getter of the entity (get_name, get_author, ...)
TextGet ==
  /\ \E got \in GetText(txKind, engText) :
       /\ txOp' = "get"
       /\ txGot' = got
       /\ txRet' = "text"
       /\ txPrev' = engText
       /\ txEngineSet' = FALSE
  /\ UNCHANGED <<txKind, engText, txArg, notText>>

TextInit ==
  /\ txKind \in TextKinds
  /\ engText \in EngineTexts
  /\ txOp = "none"
  /\ txArg = <<>>
  /\ txRet = "none"
  /\ txGot = <<>>
  /\ txPrev = <<>>
  /\ txEngineSet = FALSE
  /\ ReaderIdle
  /\ ColIdle
  /\ OwnIdle
  /\ WriterIdle
  /\ ObsIdle
  /\ bridge = 1
  /\ LogIdle
  /\ FilterIdle
  /\ DumpIdle

TextNext ==
  \/ TextSet
  \/ TextGet

TextSpec == TextInit /\ [][TextNext]_vars


(***************************************************************************)
(* The "get all" getters: a buffer of CollectionCap null pointers is       *)
(* handed to the engine, which fills it and returns a count; the wrapper   *)
(* truncates the buffer to the count and keeps the non-null pointers.      *)
(* Entry i of the engine's collection is the pointer i.                    *)
(***************************************************************************)
NullPtr == 0

CollectionCapMutLarger == 1000 + 1

\* const MAX_GROUPS / MAX_ATTACHMENTS / MAX_HISTORIES / MAX_EVENTS / MAX_PROPERTIES
CollectionCap == 1000

CollectionGetters == {"MdfFileRef::get_data_groups", "MdfFileRef::get_attachments",
                      "MdfHeaderRef::get_attachments", "MdfHeaderRef::get_file_histories",
                      "MdfHeaderRef::get_events", "MdfHeader::get_data_groups",
                      "MetaDataRef::get_properties", "MetaDataRef::get_common_properties"}

\* sizes of the engine's collection: none, few, and around the cap
CollectionSizes == {0, 1, 2, CollectionCap - 1, CollectionCap, CollectionCap + 1,
                    CollectionCap + 2}

MinOf(a, b) == IF a < b THEN a ELSE b

\* the engine's getter called with a buffer of max slots: it writes the first
\* max entries and returns how many it wrote or how many it holds.
\* Result: <<returned count, buffer contents>>.
EngineGetAll(entries, buf, max) ==
  { <<n, [i \in 1..Len(buf) |-> IF i <= MinOf(Len(entries), max) THEN entries[i] ELSE buf[i]]>> :
      n \in {MinOf(Len(entries), max), Len(entries)} }

\* Vec::truncate(count), then filter(|&ptr| !ptr.is_null()).collect()
TruncateAndFilter(buf, count) ==
  SelectSeq(SubSeq(buf, 1, MinOf(count, Len(buf))), LAMBDA ptr : ptr # NullPtr)

\* one of the "get all" getters
CollectionGet ==
  /\ colCount = -1
  /\ \E r \in EngineGetAll(colEngine, [i \in 1..CollectionCap |-> NullPtr], CollectionCap) :
       /\ colCount' = r[1]
       /\ colRet' = TruncateAndFilter(r[2], r[1])
  /\ UNCHANGED <<colKind, colEngine, appVars, readerVars, textVars, ownVars, writerVars, obsVars>>

\* the collection returned is dropped; the getter can be called again
CollectionRelease ==
  /\ colCount # -1
  /\ colCount' = -1
  /\ colRet' = <<>>
  /\ UNCHANGED <<colKind, colEngine, appVars, readerVars, textVars, ownVars, writerVars, obsVars>>

ColInit ==
  /\ colKind \in CollectionGetters
  /\ colEngine \in {[i \in 1..n |-> i] : n \in CollectionSizes}
  /\ colCount = -1
  /\ colRet = <<>>
  /\ ReaderIdle
  /\ TextIdle
  /\ OwnIdle
  /\ WriterIdle
  /\ ObsIdle
  /\ bridge = 1
  /\ LogIdle
  /\ FilterIdle
  /\ DumpIdle

ColNext ==
  \/ CollectionGet
  \/ CollectionRelease

ColSpec == ColInit /\ [][ColNext]_vars


(***************************************************************************)
(* Ownership of native objects.  An owning constructor asks the engine for *)
(* an object and wraps the pointer; a handle wraps a pointer to an object  *)
(* the engine owns, or the pointer of the wrapper it was taken from.  Only *)
(* the Drop impls call the engine's UnInit functions.                      *)
(***************************************************************************)
\* wrapper types with a Drop impl that releases unconditionally
DropTypes == {"MdfReader", "MdfWriter", "CanMessage", "ChannelObserver", "CanBusObserver"}

\* wrapper types built by an owning constructor
OwningTypes == DropTypes \cup {"ETag"}

\* wrapper types whose entities hold further entities
ParentTypes == {"MdfReader", "MdfWriter", "Entity"}

\* the native objects allocated so far are 1..(FirstFree - 1)
FirstFree == CHOOSE n \in 1..(MaxNatives + 1) :
               /\ n \in 1..MaxNatives => nat[n].by = "free"
               /\ \A m \in 1..(n - 1) : nat[m].by # "free"

\* the program keeps a new wrapper value in its first unused variable
IsFirstUnused(w) ==
  /\ wr[w] = NoWrapper
  /\ \A v \in 1..(w - 1) : wr[v] # NoWrapper

\* an owning constructor: MdfReader::new, MdfWriter::new, CanMessage::new,
\* create_channel_observer, create_can_bus_observer, ETag::new.  A null
\* pointer from the engine is an error, except in CanMessage::new, which
\* wraps whatever CanMessageInit returned.
OwningNew(w) ==
  /\ IsFirstUnused(w)
  /\ \E type \in {ownKind, "MdfReader"} :
       \/ /\ FirstFree <= MaxNatives
          /\ nat' = [nat EXCEPT ![FirstFree].by = type]
          /\ wr' = [wr EXCEPT ![w] = [type |-> type, ptr |-> FirstFree, owned |-> TRUE]]
       \/ /\ type = "CanMessage"
          /\ wr' = [wr EXCEPT ![w] = [type |-> type, ptr |-> NullPtr, owned |-> TRUE]]
          /\ UNCHANGED nat
       \/ /\ type # "CanMessage"
          /\ UNCHANGED <<nat, wr>>
  /\ UNCHANGED <<ownKind, appVars, readerVars, textVars, colVars, writerVars, obsVars>>

DerefHandleMutOwning(w, from) ==
  /\ IsFirstUnused(w)
  /\ wr[from].type \in {"CanMessage", "ChannelObserver", "CanBusObserver", "ETag"}
  /\ wr' = [wr EXCEPT ![w] = wr[from]]
  /\ UNCHANGED <<nat, ownKind, appVars, readerVars, textVars, colVars, writerVars, obsVars>>

\* a reference handle with the wrapper's own pointer (Deref of CanMessage,
\* ChannelObserver, CanBusObserver, ETag to their Ref types, copied out)
DerefHandle(w, from) ==
  /\ IsFirstUnused(w)
  /\ wr[from].type \in {"CanMessage", "ChannelObserver", "CanBusObserver", "ETag"}
  /\ wr' = [wr EXCEPT ![w] = [type |-> "Ref", ptr |-> wr[from].ptr, owned |-> FALSE]]
  /\ UNCHANGED <<nat, ownKind, appVars, readerVars, textVars, colVars, writerVars, obsVars>>

\* a handle to an object the engine owns, taken from a parent: a getter
\* (get_file, get_header, get_data_group, get_metadata, ...), a parent's
\* create call (create_data_group, create_channel, ...), or, as type "ETag",
\* ETag::from_raw in MetaDataRef::get_properties / get_common_properties
ChildHandle(w, from) ==
  /\ IsFirstUnused(w)
  /\ wr[from].type \in ParentTypes
  /\ wr[from].ptr # NullPtr
  /\ \E type \in {"Entity", "ETag"}, p \in 1..MaxNatives :
       /\ \/ nat[p].by = "engine"
          \/ p = FirstFree
       /\ nat' = [nat EXCEPT ![p].by = "engine"]
       /\ wr' = [wr EXCEPT ![w] = [type |-> type, ptr |-> p, owned |-> FALSE]]
  /\ UNCHANGED <<ownKind, appVars, readerVars, textVars, colVars, writerVars, obsVars>>

DropReleasesMutIgnoreOwned(v) ==
  /\ v.type \in DropTypes \cup {"ETag"}
  /\ v.ptr # NullPtr

\* whether dropping the wrapper value calls the engine's UnInit: the Drop
\* impls of the five types test the pointer, Drop for ETag also the owned
\* flag; the other types have no Drop impl
DropReleases(v) ==
  \/ /\ v.type \in DropTypes
     /\ v.ptr # NullPtr
  \/ /\ v.type = "ETag"
     /\ v.owned
     /\ v.ptr # NullPtr

\* a wrapper value goes out of scope
DropWrapper(w) ==
  /\ wr[w] # NoWrapper
  /\ wr' = [wr EXCEPT ![w] = NoWrapper]
  /\ nat' = [n \in 1..MaxNatives |->
               IF n = wr[w].ptr
                 THEN [nat[n] EXCEPT
                         !.releases = IF DropReleases(wr[w]) THEN @ + 1 ELSE @,
                         !.ownerDropped = @ \/ (wr[w].owned /\ wr[w].type \in OwningTypes),
                         !.rawDropped = @ \/ (~wr[w].owned /\ wr[w].type = "ETag")]
                 ELSE nat[n]]
  /\ UNCHANGED <<ownKind, appVars, readerVars, textVars, colVars, writerVars, obsVars>>

OwnInit ==
  /\ ownKind \in OwningTypes
  /\ nat = [n \in 1..MaxNatives |-> FreeNative]
  /\ wr = [w \in 1..MaxWrappers |-> NoWrapper]
  /\ ReaderIdle
  /\ TextIdle
  /\ ColIdle
  /\ WriterIdle
  /\ ObsIdle
  /\ bridge = 1
  /\ LogIdle
  /\ FilterIdle
  /\ DumpIdle

OwnNext ==
  \/ \E w \in 1..MaxWrappers : OwningNew(w)
  \/ \E w, from \in 1..MaxWrappers : DerefHandle(w, from)
  \/ \E w, from \in 1..MaxWrappers : ChildHandle(w, from)
  \/ \E w \in 1..MaxWrappers : DropWrapper(w)

OwnSpec == OwnInit /\ [][OwnNext]_vars


(***************************************************************************)
(* MdfWriter and the write-side entities reached from it.  The wrapper     *)
(* keeps no state of its own: every call goes to the engine, in whatever   *)
(* order the program makes them.                                           *)
(***************************************************************************)
\* data groups created in one run
MaxGroups == 2

MeasurementCalls == {"init_measurement", "start_measurement", "stop_measurement",
                     "finalize_measurement"}

\* init_measurement / start_measurement / stop_measurement / finalize_measurement
WriterMeasurementCall ==
  /\ \E call \in MeasurementCalls :
       /\ wCalls' = wCalls \cup {call}
       /\ wSnap' = IF call = "finalize_measurement" THEN <<wAuthor, wGroups>> ELSE wSnap
  /\ UNCHANGED <<wAuthor, wGroups, wStart, wSaves, appVars, readerVars, textVars, colVars, ownVars, obsVars>>

\* writer.get_header() then MdfHeader::set_author(text): IHeaderSetAuthor
HeaderSetAuthor ==
  /\ \E s \in { <<>>, <<"a">>, <<"b">> } :
       wAuthor' = CStringNew(s)[2]
  /\ UNCHANGED <<wCalls, wGroups, wSnap, wStart, wSaves, appVars, readerVars, textVars, colVars, ownVars, obsVars>>

\* MdfWriter::create_data_group (a create-child call): a non-null pointer
\* from MdfWriterCreateDataGroup is a new data group of the file
WriterCreateDataGroup ==
  /\ wGroups < MaxGroups
  /\ wGroups' = wGroups + 1
  /\ UNCHANGED <<wCalls, wAuthor, wSnap, wStart, wSaves, appVars, readerVars, textVars, colVars, ownVars, obsVars>>

WriterInit ==
  /\ WriterIdle
  /\ ReaderIdle
  /\ TextIdle
  /\ ColIdle
  /\ OwnIdle
  /\ ObsIdle
  /\ bridge = 1
  /\ LogIdle
  /\ FilterIdle
  /\ DumpIdle

WriterNext ==
  \/ WriterMeasurementCall
  \/ HeaderSetAuthor
  \/ WriterCreateDataGroup

WriterSpec == WriterInit /\ [][WriterNext]_vars

(***************************************************************************)
(* Samples written through MdfWriter.  start_measurement, save_sample and  *)
(* save_can_message forward their u64 times to the engine unchanged; what  *)
(* the engine does with a sample is its own (it is not part of the crate): *)
(* it drops every sample while the start time is 0 and keeps the samples   *)
(* of a measurement started at a time greater than 0.                      *)
(***************************************************************************)
SampleTimes == 0..MaxTime

\* MdfWriterSaveSample / MdfWriterSaveCanMessage: the sample is kept or not.
\* Before any start_measurement the outcome is not specified.
EngineKeepsSample(start, time) ==
  IF start = -1 THEN BOOLEAN ELSE {start > 0}

\* MdfWriter::start_measurement(start_time)
WriterStartMeasurementMutClamp ==
  /\ \E start_time \in SampleTimes :
       wStart' = [given |-> start_time,
                  engine |-> IF start_time = 0 THEN 1 ELSE start_time]
  /\ wCalls' = wCalls \cup {"start_measurement"}
  /\ UNCHANGED <<wAuthor, wGroups, wSnap, wSaves, appVars, readerVars, textVars, colVars,
                 ownVars, obsVars>>

WriterStartMeasurement ==
  /\ \E start_time \in SampleTimes :
       wStart' = [given |-> start_time, engine |-> start_time]
  /\ wCalls' = wCalls \cup {"start_measurement"}
  /\ UNCHANGED <<wAuthor, wGroups, wSnap, wSaves, appVars, readerVars, textVars, colVars,
                 ownVars, obsVars>>

\* one save call, of either form, with the time it was given
WriterSave(form, time) ==
  /\ Len(wSaves) < MaxSaved
  /\ \E kept \in EngineKeepsSample(wStart.engine, time) :
       wSaves' = Append(wSaves, [form |-> form, time |-> time, start |-> wStart.given,
                                 kept |-> kept])
  /\ UNCHANGED <<wCalls, wAuthor, wGroups, wSnap, wStart, appVars, readerVars, textVars,
                 colVars, ownVars, obsVars>>

\* MdfWriter::save_sample(group, time)
WriterSaveSample == \E time \in SampleTimes : WriterSave("save_sample", time)

\* MdfWriter::save_can_message(group, time, message)
WriterSaveCanMessage == \E time \in SampleTimes : WriterSave("save_can_message", time)

SampleNext ==
  \/ WriterStartMeasurement
  \/ WriterSaveSample
  \/ WriterSaveCanMessage

SampleSpec == WriterInit /\ [][SampleNext]_vars


(***************************************************************************)
(* The observers.  The engine's observer holds one sample per record: a    *)
(* validity flag, a raw value, an engineering value and, for a CAN bus     *)
(* observer, a message (its pointer is the sample's position, NullPtr if   *)
(* the sample holds no message).                                           *)
(***************************************************************************)
\* samples an observer holds
MaxObsSamples == 2

ObsKinds == {"channel_value", "eng_value", "can_message"}

ObsSampleValues == [valid : BOOLEAN, raw : {0, 1}, eng : {0, 2}]

\* the engine's single-sample getters called with index i (0-based) and, for
\* the value getters, an out-parameter holding out: <<validity or non-null,
\* value or pointer>>.  An index past the last sample is invalid / null.
EngineSample(kind, samples, i, out) ==
  IF i >= Len(samples) THEN <<FALSE, IF kind = "can_message" THEN NullPtr ELSE out>>
  ELSE CASE kind = "channel_value" -> <<samples[i + 1].valid, samples[i + 1].raw>>
         [] kind = "eng_value"     -> <<samples[i + 1].valid, samples[i + 1].eng>>
         [] kind = "can_message"   ->
              <<samples[i + 1].valid, IF samples[i + 1].valid THEN i + 1 ELSE NullPtr>>

GetSampleMutPlaceholder(kind, samples, i) ==
  <<"Some", EngineSample(kind, samples, i, 0)[2]>>

\* get_channel_value / get_eng_value: let mut value = 0.0; Some(value) if the
\* engine returns true, None otherwise.  get_can_message: None for a null
\* pointer, Some(CanMessageRef) otherwise.
GetSample(kind, samples, i) ==
  LET r == EngineSample(kind, samples, i, 0)
  IN IF kind = "can_message"
       THEN (IF r[2] = NullPtr THEN <<"None", 0>> ELSE <<"Some", r[2]>>)
       ELSE (IF r[1] THEN <<"Some", r[2]>> ELSE <<"None", 0>>)

\* a single-sample accessor, with any index
ObsGetSample ==
  /\ \E kind \in ObsKinds, i \in 0..(MaxObsSamples + 1) :
       /\ obsOp' = kind
       /\ obsBatch' = FALSE
       /\ obsIdx' = i
       /\ obsRet' = GetSample(kind, obsSamples, i)
  /\ UNCHANGED <<obsSamples, obsAll, appVars, readerVars, textVars, colVars, ownVars, writerVars>>

ObsGetAllMutSkipInvalid ==
  /\ \E kind \in ObsKinds :
       /\ obsOp' = kind
       /\ obsBatch' = TRUE
       /\ obsAll' = SelectSeq([j \in 1..Len(obsSamples) |-> GetSample(kind, obsSamples, j - 1)],
                              LAMBDA e : e[1] = "Some")
  /\ UNCHANGED <<obsSamples, obsIdx, obsRet, appVars, readerVars, textVars, colVars, ownVars, writerVars>>

\* get_all_channel_values / get_all_eng_values / get_all_can_messages:
\* for sample in 0..get_nof_samples() { push(single accessor(sample)) }
ObsGetAll ==
  /\ \E kind \in ObsKinds :
       /\ obsOp' = kind
       /\ obsBatch' = TRUE
       /\ obsAll' = [j \in 1..Len(obsSamples) |-> GetSample(kind, obsSamples, j - 1)]
  /\ UNCHANGED <<obsSamples, obsIdx, obsRet, appVars, readerVars, textVars, colVars, ownVars, writerVars>>

ObsInit ==
  /\ obsSamples \in UNION {[1..n -> ObsSampleValues] : n \in 0..MaxObsSamples}
  /\ obsOp = "none"
  /\ obsBatch = FALSE
  /\ obsIdx = 0
  /\ obsRet = <<"None", 0>>
  /\ obsAll = <<>>
  /\ WriterIdle
  /\ ReaderIdle
  /\ TextIdle
  /\ ColIdle
  /\ OwnIdle
  /\ bridge = 1
  /\ LogIdle
  /\ FilterIdle
  /\ DumpIdle

ObsNext ==
  \/ ObsGetSample
  \/ ObsGetAll

ObsSpec == ObsInit /\ [][ObsNext]_vars


(***************************************************************************)
(* The -m entries of mf4-candump (setup_mdf_writer, lines 102 and          *)
(* 117-128).  Whether the writer has a header and whether the header       *)
(* yields a metadata block are the engine's answers.                       *)
(***************************************************************************)
MetaAlphabet == {"a", "="}
MetaEntries == SeqsUpTo(MetaAlphabet, MaxMetaLen)
MetaArgs == SeqsUpTo(MetaEntries, MaxMeta)

\* entry.splitn(2, '=').collect(): the entry is scanned from the left; the
\* first '=' ends the first part and the rest, whatever it holds, is the
\* second part.
RECURSIVE SplitN2Scan(_, _, _)
SplitN2Scan(entry, i, first) ==
  IF i > Len(entry) THEN <<first>>
  ELSE IF entry[i] = "=" THEN <<first, SubSeq(entry, i + 1, Len(entry))>>
  ELSE SplitN2Scan(entry, i + 1, Append(first, entry[i]))

RECURSIVE RSplitN2Scan(_, _)
RSplitN2Scan(entry, i) ==
  IF i < 1 THEN <<entry>>
  ELSE IF entry[i] = "=" THEN <<SubSeq(entry, 1, i - 1), SubSeq(entry, i + 1, Len(entry))>>
  ELSE RSplitN2Scan(entry, i - 1)

SplitN2MutLast(entry) == RSplitN2Scan(entry, Len(entry))

SplitN2(entry) == SplitN2Scan(entry, 1, <<>>)

\* MetaData::set_property_as_string(index, prop): both texts go through
\* CString::new(..)? before the engine is called
SetPropertyAsString(index, prop) ==
  IF CStringNew(index)[1] = "Ok" /\ CStringNew(prop)[1] = "Ok"
    THEN <<"Ok", <<index, prop>>>>
    ELSE <<"StringConversion", <<>>>>

\* lines 119-126: for entry in meta { .. }, from entry i on
RECURSIVE MetaLoop(_, _, _, _)
MetaLoop(meta, i, props, warnings) ==
  IF i > Len(meta) THEN [ret |-> "done", props |-> props, warned |-> warnings]
  ELSE LET parts == SplitN2(meta[i]) IN
       IF Len(parts) = 2
         THEN LET set == SetPropertyAsString(parts[1], parts[2]) IN
              IF set[1] = "Ok"
                THEN MetaLoop(meta, i + 1, Append(props, set[2]), warnings)
                ELSE [ret |-> "Err", props |-> props, warned |-> warnings]
         ELSE MetaLoop(meta, i + 1, props, Append(warnings, meta[i]))

\* lines 102 and 117-128: if let Some(header) = writer.get_header() { ..
\* if let Some(meta) = metadata { header.create_metadata().unwrap(); for .. } }
SetupMetadata ==
  /\ metaRet = "none"
  /\ \E header \in {"Some", "None"}, block \in {"Some", "None"} :
       IF header = "None"
         THEN /\ metaRet' = "no_header"
              /\ UNCHANGED <<metaProps, metaWarned>>
         ELSE IF ~metadata.some
           THEN /\ metaRet' = "done"
                /\ UNCHANGED <<metaProps, metaWarned>>
           ELSE IF block = "None"
             THEN /\ metaRet' = "panic"
                  /\ UNCHANGED <<metaProps, metaWarned>>
             ELSE LET r == MetaLoop(metadata.entries, 1, <<>>, <<>>) IN
                  /\ metaRet' = r.ret
                  /\ metaProps' = r.props
                  /\ metaWarned' = r.warned
  /\ UNCHANGED <<libVars, logVars, filterVars, metadata, tracing, finalizeFailed, failedAt,
                 framesRead, savedTo, filters, duration, max_samples, mpc,
                 can_filters, running, sigState, sigDelivered, sigInCapture,
                 timerArmed, elapsed, message_count, savedCount, calls,
                 writerCreated, socketOpened, readError, errorLogged, warned,
                 endCause, exit_code>>

\* A run as it stands when setup_mdf_writer reaches its header step, with
\* the -m entries it was given.
MetaInit ==
  /\ metadata \in {NoMeta} \cup {[some |-> TRUE, entries |-> m] : m \in MetaArgs}
  /\ metaProps = <<>>
  /\ metaWarned = <<>>
  /\ metaRet = "none"
  /\ tracing = FALSE
  /\ filters = <<>>
  /\ duration = NoneOpt
  /\ max_samples = NoneOpt
  /\ finalizeFailed = FALSE
  /\ failedAt = "none"
  /\ framesRead = <<>>
  /\ savedTo = <<>>
  /\ mpc = "header"
  /\ can_filters = <<>>
  /\ running = TRUE
  /\ sigState = "listening"
  /\ sigDelivered = FALSE
  /\ sigInCapture = FALSE
  /\ timerArmed = FALSE
  /\ elapsed = FALSE
  /\ message_count = 0
  /\ savedCount = 0
  /\ calls = <<"set_bus_type", "create_bus_log_configuration">>
  /\ writerCreated = TRUE
  /\ socketOpened = FALSE
  /\ readError = FALSE
  /\ errorLogged = FALSE
  /\ warned = FALSE
  /\ endCause = "none"
  /\ exit_code = Running
  /\ FilterIdle
  /\ bridge = 1
  /\ LogIdle
  /\ LibIdle

MetaNext == SetupMetadata

MetaSpec == MetaInit /\ [][MetaNext]_vars


(***************************************************************************)
(* Claims about the logging bridge (checked under LogSpec).                *)
(***************************************************************************)
InCallback(e) == epc[e] = "in_callback"
ClearReturned(t) == arg[t] = None /\ pc[t] = "idle" /\ result[t] = "Ok"

\* C1: an install call that finds a callback of its shape installed returns
\* Err(CallbackError) and changes neither the installed callback nor the
\* engine-side registration; a call returns Err only in that case (there is no
\* path on which an install replaces the callback it found).
C1_InstallWhileInstalledFails ==
  [][\A t \in Callers :
       /\ (pc[t] = "check" /\ pc'[t] # "check" /\ slot # None)
            => /\ result'[t] = "Err"
               /\ pc'[t] = "idle"
               /\ slot' = slot
               /\ engineFn' = engineFn
       /\ (result'[t] = "Err" /\ result[t] # "Err")
            => /\ arg[t] # None
               /\ slot # None
               /\ slot' = slot
               /\ engineFn' = engineFn]_vars

\* C1 witness: an install of another callback was refused while the first one
\* is still installed and registered.
C1_Witness ==
  \E t \in Callers :
    /\ pc[t] = "idle" /\ result[t] = "Err"
    /\ slot # None /\ slot # arg[t]
    /\ engineFn

C3_OneInstallBetweenClears == nOk <= 1

(***************************************************************************)
(* Claims about parse_can_filter (checked under FilterSpec).               *)
(***************************************************************************)
HasPrefix0x(part) == Len(part) >= 2 /\ part[1] = "0" /\ part[2] = "x"

\* a part as the claim reads it: hexadecimal after a 0x prefix, decimal without
ClaimedParsePart(part) ==
  IF HasPrefix0x(part)
    THEN FromStrRadix(SubSeq(part, 3, Len(part)), 16)
    ELSE FromStrRadix(part, 10)

\* C9: parse_can_filter reads a 0x-prefixed part as hexadecimal and an
\* unprefixed part as decimal ("291,2047" gives the id and mask of
\* "0x123,0x7FF"), and fails for a string that has not exactly two parts or
\* has a part that is neither.
C9_FilterParsing ==
  filter_res.done =>
    LET parts == SplitComma(filter_str, <<>>) IN
    /\ IF /\ Len(parts) = 2
          /\ ~IsErr(ClaimedParsePart(parts[1]))
          /\ ~IsErr(ClaimedParsePart(parts[2]))
         THEN /\ filter_res.ok
              /\ filter_res.id = ClaimedParsePart(parts[1])
              /\ filter_res.mask = ClaimedParsePart(parts[2])
         ELSE ~filter_res.ok
    /\ filter_str = ExDecFilter =>
         /\ filter_res.ok
         /\ filter_res.id = U32(291)
         /\ filter_res.mask = U32(2047)

(***************************************************************************)
(* Claims about mf4-candump (checked under DumpSpec and FairDumpSpec).     *)
(***************************************************************************)
CountOf(seq, x) == Cardinality({i \in 1..Len(seq) : seq[i] = x})
LastTwo(seq) == IF Len(seq) >= 2 THEN SubSeq(seq, Len(seq) - 1, Len(seq)) ELSE <<>>
Finalized ==
  /\ CountOf(calls, "stop_measurement") = 1
  /\ CountOf(calls, "finalize_measurement") = 1
  /\ LastTwo(calls) = <<"stop_measurement", "finalize_measurement">>

\* C4: once the capture loop has ended, whatever the cause, the run goes on to
\* stop_measurement and then finalize_measurement, and when log_can_messages
\* has returned each has been called exactly once, in that order.
C4_StopThenFinalize ==
  endCause # "none" =>
    /\ mpc \in {"stop", "finalize", "exited"}
    /\ mpc = "stop" =>
         /\ CountOf(calls, "stop_measurement") = 0
         /\ CountOf(calls, "finalize_measurement") = 0
    /\ mpc = "finalize" =>
         /\ CountOf(calls, "stop_measurement") = 1
         /\ CountOf(calls, "finalize_measurement") = 0
         /\ calls[Len(calls)] = "stop_measurement"
    /\ mpc = "exited" => Finalized

\* C4 witness: a run whose loop ended on a read error has returned.
C4_Witness == mpc = "exited" /\ endCause = "error" /\ Finalized

\* C5: when read_frame has returned an error other than WouldBlock and that
\* error ended the loop, the tool exits non-zero, the error having been logged.
C5_ReadErrorPropagates ==
  (mpc = "exited" /\ endCause = "error") => (exit_code = 1 /\ errorLogged)

C7_DurationEndsCapture ==
  (duration # NoneOpt /\ elapsed /\ mpc \in CaptureStates)
    ~> (mpc = "exited" /\ Finalized)

\* C8: with a sample limit, message_count equals the number of frames passed
\* to save_can_message and never exceeds the limit; no frame is read once the
\* limit is reached, and a limit of 0 saves nothing.
C8_SampleLimit ==
  max_samples # NoneOpt =>
    /\ message_count = savedCount
    /\ message_count <= max_samples
    /\ mpc = "read" => message_count < max_samples
    /\ max_samples = 0 => savedCount = 0
    /\ endCause = "limit" => message_count = max_samples

\* C8 witness: a run with a positive limit has saved that many frames and
\* ended on the limit.
C8_Witness ==
  /\ max_samples > 0
  /\ endCause = "limit"
  /\ savedCount = max_samples
  /\ mpc = "exited"

DesignatedError(op) ==
  CASE op = "new"                      -> <<"FileOpen", rdPath>>
    [] op = "open"                     -> <<"FileOpen", <<"Failed to open file">>>>
    [] op = "read_header"              -> <<"HeaderRead", <<>>>>
    [] op = "read_measurement_info"    -> <<"MeasurementInfo", <<>>>>
    [] op = "read_everything_but_data" -> <<"DataRead", <<>>>>
    [] op = "read_data"                -> <<"DataRead", <<>>>>

MappedOps == {"new", "open", "read_header", "read_measurement_info",
              "read_everything_but_data", "read_data"}

\* C11: every MdfReader operation returns its designated error when the
\* engine reports a failure and Ok when it reports success; new's FileOpen
\* carries the attempted path; no failure is returned as Ok.
C11_ReaderErrorMapping ==
  rdOp \in MappedOps =>
    /\ rdEngine = "fail" => rdRet = DesignatedError(rdOp)
    /\ rdEngine = "ok" => rdRet = OkUnit
    /\ rdRet = OkUnit => rdEngine = "ok"
    /\ (rdOp = "new" /\ rdEngine = "fail") => rdRet[2] = rdPath

C11_Witness ==
  /\ rdOp = "read_header"
  /\ rdEngine = "fail"
  /\ rdRet = <<"HeaderRead", <<>>>>


(***************************************************************************)
(* Claims about text setters and getters (checked under TextSpec).         *)
(***************************************************************************)
\* C12: a text setter given text with an embedded NUL byte returns an error,
\* does not panic, makes no engine call and leaves the entity unchanged, for
\* every entity type that has text setters.
C12_NulSetterReturnsError ==
  (txOp = "set" /\ HasNul(txArg)) =>
    /\ txRet = "Err"
    /\ ~txEngineSet
    /\ engText = txPrev

\* the bytes of the text are all valid UTF-8
ValidUtf8(text) == \A i \in DOMAIN text : text[i] # BadByte

\* C13: every text getter returns the text the engine holds, untruncated,
\* whatever its length.
C13_GetterReturnsEngineText ==
  (txOp = "get" /\ ValidUtf8(engText)) => txGot = engText


(***************************************************************************)
(* Claims about the "get all" getters (checked under ColSpec).             *)
(***************************************************************************)
\* C14: a "get all" getter returns exactly min(actual count, 1000) entries,
\* in the engine's order, and never more than 1000, whichever count the
\* engine reports.
C14_CollectionCapped ==
  colCount # -1 =>
    /\ Len(colRet) = MinOf(Len(colEngine), 1000)
    /\ Len(colRet) <= 1000
    /\ \A i \in 1..Len(colRet) : colRet[i] = colEngine[i]

C14_Witness ==
  /\ colCount = 1001
  /\ Len(colEngine) = 1001
  /\ Len(colRet) = 1000


(***************************************************************************)
(* Claims about ownership (checked under OwnSpec).                         *)
(***************************************************************************)
\* the wrapper's UnInit calls on a native object: one if the wrapper that
\* allocated it has been dropped, none before, never two
ReleasedOnceOnDrop(n) == nat[n].releases = IF nat[n].ownerDropped THEN 1 ELSE 0

C16_OwnedReleasedOnce ==
  \A n \in 1..MaxNatives :
    /\ nat[n].by \in DropTypes => ReleasedOnceOnDrop(n)
    /\ nat[n].releases <= 1

C16_Witness ==
  \E n \in 1..MaxNatives :
    /\ nat[n].by = "CanMessage" /\ nat[n].ownerDropped /\ nat[n].releases = 1
    /\ \E w \in 1..MaxWrappers : wr[w] = [type |-> "Ref", ptr |-> n, owned |-> FALSE]


\* C17: no handle obtained from an MdfReader (MdfFileRef, MdfHeaderRef,
\* DataGroupRef and what is reached from them) is used to call the engine
\* after that reader has been released.
C17_NoHandleUseAfterRelease == ~rdDangling


(***************************************************************************)
(* Claims about MdfWriter's entities (checked under WriterSpec).           *)
(***************************************************************************)
\* C18: once finalize_measurement has returned, a later setter or
\* create-child call on a write-side entity changes neither the metadata
\* nor the structure the writer holds.
C18_ImmutableAfterFinalize ==
  "finalize_measurement" \in wCalls => <<wAuthor, wGroups>> = wSnap


(***************************************************************************)
(* Claims about the samples a writer saves (checked under SampleSpec).     *)
(***************************************************************************)
\* the saves since the last start_measurement have ascending timestamps
AscendingSince(start) ==
  \A i, j \in DOMAIN wSaves :
    (i < j /\ wSaves[i].start = start /\ wSaves[j].start = start)
      => wSaves[i].time <= wSaves[j].time

\* C21: no sample saved after start_measurement(0) is persisted, however
\* many save calls follow; after a start time greater than 0, saves with
\* ascending timestamps are all persisted.
C21_StartTimeZeroDropsSamples ==
  \A i \in DOMAIN wSaves :
    /\ wSaves[i].start = 0 => ~wSaves[i].kept
    /\ (wSaves[i].start > 0 /\ AscendingSince(wSaves[i].start)) => wSaves[i].kept

C21_Witness ==
  /\ Len(wSaves) = MaxSaved
  /\ \E i, j \in DOMAIN wSaves :
       /\ wSaves[i].start = 0 /\ ~wSaves[i].kept
       /\ wSaves[j].start > 0 /\ wSaves[j].kept /\ wSaves[j].form = "save_can_message"


(***************************************************************************)
(* Claims about the observers (checked under ObsSpec).                     *)
(***************************************************************************)
\* the engine marks sample obsIdx valid
SampleValid == obsIdx < Len(obsSamples) /\ obsSamples[obsIdx + 1].valid

\* C19: get_channel_value and get_eng_value return None exactly when the
\* engine marks the sample invalid and Some(the engine's value) otherwise,
\* so no 0.0 placeholder stands for an invalid sample; get_can_message
\* returns None for an index past the last sample.
C19_AbsentIffInvalid ==
  (obsOp \in ObsKinds /\ ~obsBatch) =>
    /\ obsOp = "channel_value" =>
         obsRet = IF SampleValid THEN <<"Some", obsSamples[obsIdx + 1].raw>> ELSE <<"None", 0>>
    /\ obsOp = "eng_value" =>
         obsRet = IF SampleValid THEN <<"Some", obsSamples[obsIdx + 1].eng>> ELSE <<"None", 0>>
    /\ (obsOp = "can_message" /\ obsIdx >= Len(obsSamples)) => obsRet = <<"None", 0>>

C19_Witness ==
  /\ obsOp = "channel_value"
  /\ ~obsBatch
  /\ obsIdx = 1
  /\ Len(obsSamples) = 2
  /\ ~obsSamples[2].valid
  /\ obsSamples[2].raw = 0
  /\ obsRet = <<"None", 0>>

\* C20: the get_all_* accessors return get_nof_samples() entries, in sample
\* order, entry i being what the single-sample accessor returns for index i,
\* absent entries included.
C20_BatchEqualsSingles ==
  (obsOp \in ObsKinds /\ obsBatch) =>
    /\ Len(obsAll) = Len(obsSamples)
    /\ \A j \in 1..Len(obsAll) : obsAll[j] = GetSample(obsOp, obsSamples, j - 1)

C20_Witness ==
  /\ obsOp = "eng_value"
  /\ obsBatch
  /\ Len(obsSamples) = 2
  /\ obsAll = << <<"None", 0>>, <<"Some", 2>> >>

(***************************************************************************)
(* Claims about the end of a capture (checked under DumpSpec).             *)
(***************************************************************************)
\* the capture ended by a graceful shutdown: the signal's flag, the duration
\* timeout or the sample limit
GracefulEnd == endCause \in {"flag", "timeout", "limit"}

\* C22: when finalize_measurement reports failure a warning is logged and
\* the tool still exits zero; a run whose capture ended by the signal, the
\* timeout or the sample limit never exits non-zero.
C22_FinalizeFailureOnlyWarns ==
  /\ finalizeFailed => (warned /\ mpc = "exited" /\ exit_code = 0)
  /\ (mpc = "exited" /\ GracefulEnd) => exit_code = 0

C22_Witness ==
  /\ finalizeFailed
  /\ warned
  /\ GracefulEnd
  /\ exit_code = 0


(***************************************************************************)
(* Claims about the calls made on the writer and the frames saved          *)
(* (checked under RouteSpec).                                              *)
(***************************************************************************)
\* the calls of the writer's protocol that may directly follow a call
FollowersOf(call) ==
  CASE call = "set_bus_type" -> {"create_bus_log_configuration"}
    [] call = "create_bus_log_configuration" -> {"init_measurement"}
    [] call = "init_measurement" -> {"start_measurement"}
    [] call = "start_measurement" -> {"save_can_message", "stop_measurement"}
    [] call = "save_can_message" -> {"save_can_message", "stop_measurement"}
    [] call = "stop_measurement" -> {"finalize_measurement"}
    [] call = "finalize_measurement" -> {}

Called(call) == \E i \in DOMAIN calls : calls[i] = call

\* C23: the calls on the writer follow the protocol order set_bus_type,
\* create_bus_log_configuration, init_measurement, start_measurement, any
\* number of save_can_message, stop_measurement, finalize_measurement;
\* start_measurement is called only if init_measurement succeeded, and the
\* loop reads (and so saves) only between start_measurement and
\* stop_measurement.
C23_ProtocolOrder ==
  /\ calls # <<>> => calls[1] = "set_bus_type"
  /\ \A i \in 2..Len(calls) : calls[i] \in FollowersOf(calls[i - 1])
  /\ Called("start_measurement") => failedAt \notin {"bus_log", "init"}
  /\ mpc = "read" => (Called("start_measurement") /\ ~Called("stop_measurement"))

C23_Witness ==
  /\ mpc = "exited"
  /\ Len(calls) > 6
  /\ calls[Len(calls)] = "finalize_measurement"
  /\ Called("save_can_message")


\* the channel group the claim names for a frame class
MatchingGroup(class) ==
  CASE class = "data" -> "CAN_DataFrame"
    [] class = "error" -> "CAN_ErrorFrame"
    [] class = "remote" -> "CAN_RemoteFrame"

\* the positions in calls of the save_can_message calls
SavePositions == {i \in DOMAIN calls : calls[i] = "save_can_message"}

\* C24: every frame read is saved exactly once, to the channel group of its
\* class, in the order read (so in order within each group), before
\* stop_measurement; no frame read is left unsaved when the capture ends by
\* the timeout or the flag.
C24_EveryFrameSavedOnce ==
  /\ Len(savedTo) = Len(framesRead)
  /\ Cardinality(SavePositions) = Len(framesRead)
  /\ \A i \in DOMAIN savedTo :
       /\ savedTo[i].frame = i
       /\ savedTo[i].group = MatchingGroup(framesRead[i])
  /\ \A i \in SavePositions, j \in DOMAIN calls :
       calls[j] = "stop_measurement" => i < j

C24_Witness ==
  /\ mpc = "exited"
  /\ endCause \in {"timeout", "flag"}
  /\ Len(framesRead) = CountCap
  /\ \E i, j \in DOMAIN framesRead :
       /\ i < j
       /\ framesRead[i] = "error"
       /\ framesRead[j] = "remote"
  /\ Called("stop_measurement")


(***************************************************************************)
(* Claims about the set-up of the writer (checked under DumpSpec).         *)
(***************************************************************************)
\* C25: when create_bus_log_configuration or init_measurement reports
\* failure the tool exits non-zero, the CAN interface is never opened and
\* none of start_measurement, save_can_message, stop_measurement and
\* finalize_measurement is called.
C25_InitFailureAborts ==
  failedAt \in {"bus_log", "init"} =>
    /\ mpc = "exited"
    /\ exit_code = 1
    /\ ~socketOpened
    /\ savedCount = 0
    /\ \A i \in DOMAIN calls :
         calls[i] \notin {"start_measurement", "save_can_message",
                          "stop_measurement", "finalize_measurement"}

C25_Witness ==
  /\ failedAt = "init"
  /\ calls = <<"set_bus_type", "create_bus_log_configuration", "init_measurement">>
  /\ exit_code = 1


(***************************************************************************)
(* Claims about the -m entries (checked under MetaSpec).                   *)
(***************************************************************************)
HasEq(entry) == \E i \in DOMAIN entry : entry[i] = "="

FirstEq(entry) ==
  CHOOSE i \in DOMAIN entry :
    entry[i] = "=" /\ \A j \in 1..(i - 1) : entry[j] # "="

\* the property an entry holding '=' names, and the text it is set to
KeyValueOf(entry) ==
  <<SubSeq(entry, 1, FirstEq(entry) - 1),
    SubSeq(entry, FirstEq(entry) + 1, Len(entry))>>

NoEq(entry) == ~HasEq(entry)

\* C26: with a header and a metadata block at hand, the entries holding '='
\* set, in order, the property named by the text before the first '=' to
\* the text after it, the entries without '=' are the ones warned about,
\* and no entry makes the step return an error.
C26_MetadataKeyValue ==
  /\ metaRet # "Err"
  /\ (metaRet = "done" /\ metadata.some) =>
       LET setting == SelectSeq(metadata.entries, HasEq) IN
       /\ metaProps = [i \in 1..Len(setting) |-> KeyValueOf(setting[i])]
       /\ metaWarned = SelectSeq(metadata.entries, NoEq)

C26_Witness ==
  /\ metaRet = "done"
  /\ metadata.some
  /\ Len(metadata.entries) = MaxMeta
  /\ metaWarned # <<>>
  /\ \E i \in DOMAIN metaProps : HasEq(metaProps[i][2])


(***************************************************************************)
(* Claims about the capture loop (checked under DumpSpec).                 *)
(***************************************************************************)
\* a step that takes the main task out of the select! towards stop_measurement
LeavesLoop == mpc \in CaptureStates /\ mpc' = "stop"

FlagIsFalse == mpc = "loop_top" /\ ~running

LimitReached ==
  mpc = "limit" /\ max_samples # NoneOpt /\ message_count >= max_samples

TimeoutFires ==
  mpc \in {"select", "yield_wb", "yield_err"} /\ duration # NoneOpt /\ elapsed'

ReadErrorReturned == mpc = "yield_err" /\ readError

\* the read at this step returned would-block
WouldBlockRead == mpc = "read" /\ mpc' = "yield_wb"

\* C27: the capture loop is left only for stop_measurement, and only when
\* the flag is false, the sample limit is reached, the timeout fires or a
\* read error other than would-block is returned; a would-block read saves
\* nothing, leaves message_count unchanged and suspends the loop, which
\* passes the top of the loop again before the next read.
C27_LoopEndCauses ==
  [][ /\ mpc \in CaptureStates => mpc' \in CaptureStates \cup {"stop"}
      /\ LeavesLoop =>
           (FlagIsFalse \/ LimitReached \/ TimeoutFires \/ ReadErrorReturned)
      /\ WouldBlockRead =>
           /\ savedCount' = savedCount
           /\ message_count' = message_count
           /\ calls' = calls
      /\ mpc = "yield_wb" =>
           \/ mpc' \in {"yield_wb", "loop_top"}
           \/ mpc' = "stop" /\ TimeoutFires
      /\ (mpc # "read" /\ mpc' = "read") => mpc = "limit"
    ]_vars

C27_Witness ==
  /\ mpc = "yield_wb"
  /\ savedCount > 0
  /\ ~elapsed
  /\ running


(***************************************************************************)
(* Further claims about the logging bridge (checked under LogSpec).        *)
(***************************************************************************)
NoCallInProgress == \A t \in Callers : pc[t] = "idle"

\* C28: whenever no set_log_callback call is in progress, the slot holds a
\* callback if and only if the bridge function is registered with the
\* engine.
C28_SlotMatchesEngine ==
  NoCallInProgress => ((slot # None) <=> engineFn)

\* C29: delivering a log record never blocks on the slot's lock: no engine
\* thread is stuck, inside the user's callback, in a set_log_callback call
\* that waits for the guard its own wrapper holds.
C29_ReentrantCallReturns ==
  \A e \in EngineThreads : epc[e] # "relock"


(***************************************************************************)
(* Claim about the return paths of log_can_messages (checked under         *)
(* DumpSpec).                                                              *)
(***************************************************************************)
\* C30: a run that has called start_measurement has called stop_measurement
\* and finalize_measurement by the time log_can_messages has returned (the
\* writer, owned by log_can_messages, is dropped at that return).
C30_StartedThenFinalized ==
  (mpc = "exited" /\ Called("start_measurement")) =>
    (Called("stop_measurement") /\ Called("finalize_measurement"))


====
